---------------------------- MODULE Spec2Model ----------------------------
(***************************************************************************)
(* Bresser weather sensor receiver (MicroPython): the payload decoders of  *)
(* src/src/bresser_decoder.py, the decode dispatcher getMessage of         *)
(* src/src/main.py and the part of the CC1101 driver (src/src/cc1101.py)   *)
(* that hands received buffers to it.                                      *)
(*                                                                         *)
(* Conventions                                                             *)
(*  - a buffer is a sequence of bytes 0..255; B(msg, i) is Python msg[i]   *)
(*    (0-based);                                                           *)
(*  - a decoder returns Return(status, data) or, when Python would raise  *)
(*    IndexError on a short buffer, Raise;                                 *)
(*  - a reading (the Python dict) is a record; None is the record NoneVal; *)
(*  - values the code scales by 0.1 are kept as the integer number of      *)
(*    tenths (temp_c = 64 stands for 6.4); the 5-in-1 rain_mm, which the   *)
(*    code may scale by 0.1 * 2.5, is kept in twentieths of a millimetre;  *)
(*    globe_temp_c is kept in tenths;                                      *)
(*  - a 32-bit sensor_id (6-in-1, Leakage) is kept as its two 16-bit       *)
(*    halves <<high, low>>: the checker's integers are 32-bit signed;      *)
(*  - the 6-in-1 battery_ok, which Python holds as False or as the int     *)
(*    0/1 (False == 0), is kept as 0/1.                                    *)
(***************************************************************************)
EXTENDS Integers, Sequences, FiniteSets, TLC

VARIABLES
    pc,             \* position of the running program (see the two specifications)
    msg,            \* SpecDecode: the buffer handed to a decoder
    base,           \* SpecDecode: name of the captured frame msg was built from
    nedits,         \* SpecDecode: number of modifications applied to the captured frame
    sealed,         \* SpecDecode: TRUE once the integrity fields were recomputed
    flip,           \* SpecDecode: <<byte, bit>> of the corrupted bit, or <<>>
    accepted,       \* SpecDecode: decoder that accepted the frame before the corruption
    kept,           \* SpecDecode: the first decoder call made, with what it returned
    out,            \* messages the last decoder call printed through log_message
    dec,            \* name of the decoder called last ("none" before the first call)
    res,            \* what that call returned (Return(..) or Raise)
    log_level,      \* bresser_decoder.log_level
    rawRSSI,        \* CC1101._rawRSSI: <<>> for None, <<v>> for the value v
    rxLast,         \* the last receive: the RSSI status byte it read (<<>>: none) and
                    \* what _rawRSSI was before it
    rcvState,       \* getMessage: status returned by cc1101.receive
    recvData,       \* getMessage: buffer returned by cc1101.receive
    idx,            \* getMessage: position in the list of decoders (1..5)
    decode_res,     \* getMessage: local decode_res
    sensor_data,    \* getMessage: local sensor_data
    calls,          \* getMessage: decoder calls made for the current buffer, in order
    printed,        \* getMessage: reading handed to print_sensor_data, or NoneVal
    ret,            \* value returned by the last getMessage that returned
    crcOn           \* CC1101._crcOn

vars == <<pc, msg, base, nedits, sealed, flip, accepted, kept, out, dec, res, log_level,
          rawRSSI, rxLast, rcvState, recvData, idx, decode_res, sensor_data, calls, printed, ret,
          crcOn>>

(***************************************************************************)
(* Program constants                                                       *)
(***************************************************************************)
DECODE_INVALID == 0
DECODE_OK == 1
DECODE_PAR_ERR == 2
DECODE_CHK_ERR == 3
DECODE_DIG_ERR == 4
DECODE_SKIP == 5
DECODE_FULL == 6

LOG_LEVEL_NONE == 0
LOG_LEVEL_ERROR == 1
LOG_LEVEL_WARNING == 2
LOG_LEVEL_INFO == 3
LOG_LEVEL_DEBUG == 4

ERR_NONE == 0
ERR_RX_TIMEOUT == -6
ERR_CRC_MISMATCH == -7

SYNC_BYTE == 212        \* 0xD4, last sync word byte, first byte of the payload
RX_LENGTH == 27         \* cc1101.receive(27)
MSG_SIZE == 26          \* size argument of every decoder call

(***************************************************************************)
(* Bit arithmetic on non-negative integers                                 *)
(***************************************************************************)
RECURSIVE BitOp(_, _, _, _)
BitOp(xor, a, b, w) ==
    IF w = 0 THEN 0
    ELSE LET x == a % 2
             y == b % 2
             z == IF xor THEN (IF x = y THEN 0 ELSE 1) ELSE x * y
         IN z + 2 * BitOp(xor, a \div 2, b \div 2, w - 1)

XorNib == [a \in 0..15 |-> [b \in 0..15 |-> BitOp(TRUE, a, b, 4)]]
AndNib == [a \in 0..15 |-> [b \in 0..15 |-> BitOp(FALSE, a, b, 4)]]

\* a ^ b
RECURSIVE Xor(_, _)
Xor(a, b) ==
    IF a = 0 THEN b
    ELSE IF b = 0 THEN a
    ELSE XorNib[a % 16][b % 16] + 16 * Xor(a \div 16, b \div 16)

\* a & b
RECURSIVE And(_, _)
And(a, b) ==
    IF a = 0 \/ b = 0 THEN 0
    ELSE AndNib[a % 16][b % 16] + 16 * And(a \div 16, b \div 16)

Shr(a, n) == a \div (2 ^ n)     \* a >> n
Shl(a, n) == a * (2 ^ n)        \* a << n
Inv8(a) == 255 - a             \* ~a & 0xff for a byte a

B(m, i) == m[i + 1]             \* Python m[i]
From(m, k) == SubSeq(m, k + 1, Len(m))  \* Python m[k:]

(***************************************************************************)
(* Results                                                                 *)
(***************************************************************************)
NoneVal == [None |-> TRUE]
Raise == [exc |-> TRUE]
Return(status, data) == [exc |-> FALSE, status |-> status, data |-> data]

Has(data, key) == key \in DOMAIN data       \* key in data

(***************************************************************************)
(* Checksum and digest primitives                                          *)
(***************************************************************************)
\* the inner loop of lfsr_digest16: bits i..0 of one byte; st = <<_sum, key>>
\* lfsr_byte without the generator: the key is only shifted, and is 0 after
\* sixteen bits
RECURSIVE lfsr_byte_NoGen(_, _, _, _)
lfsr_byte_NoGen(data, gen, st, i) ==
    IF i < 0 THEN st
    ELSE LET s2 == IF And(Shr(data, i), 1) = 1 THEN Xor(st[1], st[2]) ELSE st[1]
             k2 == Shr(st[2], 1)
         IN IF s2 >= 0 /\ k2 >= 0 THEN lfsr_byte_NoGen(data, gen, <<s2, k2>>, i - 1) ELSE st

RECURSIVE lfsr_byte(_, _, _, _)
lfsr_byte(data, gen, st, i) ==
    IF i < 0 THEN st
    ELSE LET s2 == IF And(Shr(data, i), 1) = 1 THEN Xor(st[1], st[2]) ELSE st[1]
             k2 == IF And(st[2], 1) = 1 THEN Xor(Shr(st[2], 1), gen) ELSE Shr(st[2], 1)
         IN \* the test evaluates both assignments before the next pass
            IF s2 >= 0 /\ k2 >= 0 THEN lfsr_byte(data, gen, <<s2, k2>>, i - 1) ELSE st

RECURSIVE lfsr_loop(_, _, _, _, _)
lfsr_loop(message, num_bytes, gen, st, k) ==
    IF k = num_bytes THEN st[1]
    ELSE LET st2 == lfsr_byte(B(message, k), gen, st, 7)
         IN IF st2[1] >= 0 THEN lfsr_loop(message, num_bytes, gen, st2, k + 1) ELSE st[1]

lfsr_digest16(message, num_bytes, gen, key) ==
    lfsr_loop(message, num_bytes, gen, <<0, key>>, 0)

\* add_bytes running one byte too far
RECURSIVE add_bytes_OneMore(_, _)
add_bytes_OneMore(message, num_bytes) ==
    IF num_bytes = 0 THEN B(message, 0)
    ELSE add_bytes_OneMore(message, num_bytes - 1) + B(message, num_bytes)

RECURSIVE add_bytes(_, _)
add_bytes(message, num_bytes) ==
    IF num_bytes = 0 THEN 0
    ELSE add_bytes(message, num_bytes - 1) + B(message, num_bytes - 1)

\* the inner loop of crc16: eight shifts of the remainder
RECURSIVE crc_bits(_, _, _)
crc_bits(remainder, polynomial, bit) ==
    IF bit = 8 THEN remainder
    ELSE LET r2 == IF And(remainder, 32768) # 0
                   THEN Xor(Shl(remainder, 1), polynomial)
                   ELSE Shl(remainder, 1)
             r3 == And(r2, 65535)
         IN IF r3 >= 0 THEN crc_bits(r3, polynomial, bit + 1) ELSE remainder

RECURSIVE crc_loop(_, _, _, _, _)
crc_loop(message, num_bytes, polynomial, remainder, byte_idx) ==
    IF byte_idx = num_bytes THEN remainder
    ELSE LET r2 == crc_bits(Xor(remainder, Shl(B(message, byte_idx), 8)), polynomial, 0)
         IN IF r2 >= 0 THEN crc_loop(message, num_bytes, polynomial, r2, byte_idx + 1)
            ELSE remainder

crc16(message, num_bytes, polynomial, init) ==
    crc_loop(message, num_bytes, polynomial, init, 0)

\* the while loop of the 5-in-1 checksum: number of set bits of one byte
RECURSIVE bits_of(_)
bits_of(current_byte) ==
    IF current_byte = 0 THEN 0
    ELSE And(current_byte, 1) + bits_of(Shr(current_byte, 1))

\* bits_set after the loop "for p in range(14, msgSize)"
RECURSIVE count_bits(_, _, _)
count_bits(m, p, msgSize) ==
    IF p >= msgSize THEN 0
    ELSE bits_of(B(m, p)) + count_bits(m, p + 1, msgSize)

(***************************************************************************)
(* Readings                                                                *)
(***************************************************************************)
EmptyDict == [k \in {} |-> 0]
\* "if cond: result[key] = val"
Opt(cond, key, val) == IF cond THEN key :> val ELSE EmptyDict

MOISTURE_MAP == <<0, 7, 13, 20, 27, 33, 40, 47, 53, 60, 67, 73, 80, 87, 93, 99>>

\* three BCD-like digits a, b, c as the code combines them
Dig3(a, b, c) == a * 100 + b * 10 + c
Hi(x) == Shr(x, 4)          \* x >> 4
\* Id32 with the four bytes taken least significant first
Id32_LittleEndian(a, b, c, d) == <<Shl(d, 8) + c, Shl(b, 8) + a>>

\* (a << 24) | (b << 16) | (c << 8) | d, kept as <<high half, low half>>
Id32(a, b, c, d) == <<Shl(a, 8) + b, Shl(c, 8) + d>>
Lo(x) == And(x, 15)         \* x & 0x0f

(***************************************************************************)
(* 6-in-1 decoder                                                          *)
(***************************************************************************)
\* MoistureOk with the last entry of the table left out
MoistureOk_Below16(stype, temp_ok, humidity) ==
    stype = 4 /\ temp_ok /\ humidity >= 1 /\ humidity <= 15

\* "stype == SENSOR_TYPE_SOIL and temp_ok and humidity >= 1 and humidity <= 16"
MoistureOk(stype, temp_ok, humidity) ==
    stype = 4 /\ temp_ok /\ humidity >= 1 /\ humidity <= 16

\* F3In1 with the limit of -50.0 degrees included
F3In1_Inclusive(temp_ok, temp0) == temp_ok /\ temp0 <= -500

\* "if temp < -50.0: ... f_3in1 = True"; temp0 is the signed value in tenths
F3In1(temp_ok, temp0) == temp_ok /\ temp0 < -500

\* WindOk with the wind of the soil sensor kept
WindOk_SoilToo(msg7, msg8, msg9, stype) == msg7 <= 153 /\ msg8 <= 153 /\ msg9 <= 153

\* "wind_ok = (msg7 <= 0x99) and (msg8 <= 0x99) and (msg9 <= 0x99)", then
\* "if stype == SENSOR_TYPE_SOIL: wind_ok = False"
WindOk(msg7, msg8, msg9, stype) ==
    msg7 <= 153 /\ msg8 <= 153 /\ msg9 <= 153 /\ stype # 4

\* BattOk6In1 reading the battery bit in every message
BattOk6In1_AnyFlags(temp_ok, b13) == And(Shr(b13, 1), 1)

\* "batt_ok = False", and under "if temp_ok:" "batt_ok = (msg[13] >> 1) & 1";
\* 0 stands for False
BattOk6In1(temp_ok, b13) == IF temp_ok THEN And(Shr(b13, 1), 1) ELSE 0

\* RainOk without the test of the sensor type
RainOk_AnyType(flags, stype) == flags = 1

\* "rain_ok = (flags == 1) and (stype == SENSOR_TYPE_WEATHER1)"
RainOk(flags, stype) == flags = 1 /\ stype = 1

\* the reading built once digest and checksum have passed
Reading6In1(msg_) ==
    LET sid == Id32(B(msg_, 2), B(msg_, 3), B(msg_, 4), B(msg_, 5))
        stype == Shr(B(msg_, 6), 4)
        ch == And(B(msg_, 6), 7)
        startup == (And(B(msg_, 6), 8) = 0)
        flags == And(B(msg_, 16), 15)
        temp_ok == (flags = 0)
        sign == And(Shr(B(msg_, 13), 3), 1)
        temp_raw == Dig3(Hi(B(msg_, 12)), Lo(B(msg_, 12)), Hi(B(msg_, 13)))
        temp0 == IF sign = 1 THEN temp_raw - 1000 ELSE temp_raw
        f_3in1 == F3In1(temp_ok, temp0)
        temp == IF f_3in1 THEN temp_raw ELSE temp0
        batt_ok == BattOk6In1(temp_ok, B(msg_, 13))
        humidity == IF temp_ok THEN Hi(B(msg_, 14)) * 10 + Lo(B(msg_, 14)) ELSE 0
        n15 == Inv8(B(msg_, 15))
        n16 == Inv8(B(msg_, 16))
        uv_ok0 == temp_ok /\ n15 <= 153 /\ And(n16, 240) <= 144 /\ ~f_3in1
        uv == Dig3(Shr(And(n15, 240), 4), And(n15, 15), Shr(And(n16, 240), 4))
        msg7 == Xor(B(msg_, 7), 255)
        msg8 == Xor(B(msg_, 8), 255)
        msg9 == Xor(B(msg_, 9), 255)
        gust_raw == Dig3(Hi(msg7), Lo(msg7), Hi(msg8))
        wavg_raw == Dig3(Hi(msg9), Lo(msg9), Lo(msg8))
        wind_dir_raw == Dig3(Shr(And(B(msg_, 10), 240), 4), And(B(msg_, 10), 15),
                             Shr(And(B(msg_, 11), 240), 4))
        msg12 == Xor(B(msg_, 12), 255)
        msg13 == Xor(B(msg_, 13), 255)
        msg14 == Xor(B(msg_, 14), 255)
        rain_ok == RainOk(flags, stype)
        rain_raw == Hi(msg12) * 100000 + Lo(msg12) * 10000 + Hi(msg13) * 1000
                    + Lo(msg13) * 100 + Hi(msg14) * 10 + Lo(msg14)
        wind_ok == WindOk(msg7, msg8, msg9, stype)
        uv_ok == uv_ok0 /\ stype # 4
        moisture_ok == MoistureOk(stype, temp_ok, humidity)
        humidity_ok == temp_ok /\ stype # 3 /\ ~moisture_ok
    IN [sensor_id |-> sid, sensor_type |-> stype, channel |-> ch,
        battery_ok |-> batt_ok, startup |-> startup]
       @@ Opt(temp_ok, "temp_c", temp)
       @@ Opt(humidity_ok, "humidity", humidity)
       @@ Opt(moisture_ok, "moisture", IF moisture_ok THEN B(MOISTURE_MAP, humidity - 1) ELSE 0)
       @@ Opt(uv_ok, "uv_index", uv)
       @@ Opt(wind_ok, "wind_gust_meter_sec", gust_raw)
       @@ Opt(wind_ok, "wind_avg_meter_sec", wavg_raw)
       @@ Opt(wind_ok, "wind_direction_deg", wind_dir_raw)
       @@ Opt(rain_ok, "rain_mm", rain_raw)

\* decodeBresser6In1Payload with the checksum tested before the digest
decodeBresser6In1Payload_ChecksumFirst(msg_, msgSize) ==
    IF Len(msg_) < 18 THEN Raise
    ELSE LET chkdgst == Shl(B(msg_, 0), 8) + B(msg_, 1)
             digest == lfsr_digest16(From(msg_, 2), 15, 34832, 21522)
         IN IF And(add_bytes(From(msg_, 2), 16), 255) # 255
            THEN Return(DECODE_CHK_ERR, NoneVal)
            ELSE IF chkdgst # digest THEN Return(DECODE_DIG_ERR, NoneVal)
            ELSE Return(DECODE_OK, Reading6In1(msg_))

\* decodeBresser6In1Payload without the additive checksum
decodeBresser6In1Payload_NoChecksum(msg_, msgSize) ==
    IF Len(msg_) < 18 THEN Raise
    ELSE LET chkdgst == Shl(B(msg_, 0), 8) + B(msg_, 1)
             digest == lfsr_digest16(From(msg_, 2), 15, 34832, 21522)
         IN IF chkdgst # digest THEN Return(DECODE_DIG_ERR, NoneVal)
            ELSE Return(DECODE_OK, Reading6In1(msg_))

decodeBresser6In1Payload(msg_, msgSize) ==
    IF Len(msg_) < 17 THEN Raise            \* msg[0], msg[1], msg[2:][0..14]
    ELSE LET chkdgst == Shl(B(msg_, 0), 8) + B(msg_, 1)
             digest == lfsr_digest16(From(msg_, 2), 15, 34832, 21522)
         IN IF chkdgst # digest THEN Return(DECODE_DIG_ERR, NoneVal)
            ELSE IF Len(msg_) < 18 THEN Raise   \* add_bytes reads msg[2:][15]
            ELSE IF And(add_bytes(From(msg_, 2), 16), 255) # 255
                 THEN Return(DECODE_CHK_ERR, NoneVal)
            ELSE Return(DECODE_OK, Reading6In1(msg_))

(***************************************************************************)
(* 5-in-1 decoder                                                          *)
(***************************************************************************)
\* the loop "for col in range(msgSize // 2)": "ok", "parity" or "raise"
RECURSIVE parity_loop(_, _, _)
parity_loop(msg_, col, n) ==
    IF col >= n THEN "ok"
    ELSE IF col + 13 >= Len(msg_) THEN "raise"
    ELSE IF Xor(B(msg_, col), B(msg_, col + 13)) # 255 THEN "parity"
    ELSE parity_loop(msg_, col + 1, n)

\* Gauge5In1 knowing sensor type 0x39 only
Gauge5In1_Only39(stype) == stype = 57

\* "(stype >= 0x39) and (stype <= 0x3b)": the Professional Rain Gauge
Gauge5In1(stype) == stype >= 57 /\ stype <= 59

Reading5In1(msg_) ==
    LET sid == B(msg_, 14)
        stype == And(B(msg_, 15), 127)
        startup == (And(B(msg_, 15), 128) = 0)
        batt_ok == (And(B(msg_, 25), 128) = 0)
        temp_abs == And(B(msg_, 20), 15) + Shr(And(B(msg_, 20), 240), 4) * 10
                    + And(B(msg_, 21), 15) * 100
        temp_raw == IF And(B(msg_, 25), 15) # 0 THEN -temp_abs ELSE temp_abs
        humidity == And(B(msg_, 22), 15) + Shr(And(B(msg_, 22), 240), 4) * 10
        temp_ok == And(B(msg_, 20), 15) <= 9
        wind_direction_raw == Shr(And(B(msg_, 17), 240), 4) * 225
        gust_raw == Shl(And(B(msg_, 17), 15), 8) + B(msg_, 16)
        wind_raw == And(B(msg_, 18), 15) + Shr(And(B(msg_, 18), 240), 4) * 10
                    + And(B(msg_, 19), 15) * 100
        rain_raw == And(B(msg_, 23), 15) + Shr(And(B(msg_, 23), 240), 4) * 10
                    + And(B(msg_, 24), 15) * 100 + Shr(And(B(msg_, 24), 240), 4) * 1000
        gauge == Gauge5In1(stype)
        \* rain_raw * 0.1 [* 2.5] in twentieths of a millimetre
        rain_mm == IF gauge THEN rain_raw * 5 ELSE rain_raw * 2
        humidity_ok == And(B(msg_, 22), 15) <= 9 /\ ~gauge
        wind_ok == ~gauge
    IN [sensor_id |-> sid, sensor_type |-> stype, battery_ok |-> batt_ok,
        startup |-> startup, rain_mm |-> rain_mm]
       @@ Opt(temp_ok, "temp_c", temp_raw)
       @@ Opt(humidity_ok, "humidity", humidity)
       @@ Opt(wind_ok, "wind_gust_meter_sec", gust_raw)
       @@ Opt(wind_ok, "wind_avg_meter_sec", wind_raw)
       @@ Opt(wind_ok, "wind_direction_deg", wind_direction_raw)

\* decodeBresser5In1Payload with the bit count verified before the parity
decodeBresser5In1Payload_CountFirst(msg_, msgSize) ==
    LET par == parity_loop(msg_, 0, msgSize \div 2)
    IN IF Len(msg_) < msgSize THEN Raise
       ELSE IF count_bits(msg_, 14, msgSize) # B(msg_, 13)
            THEN Return(DECODE_CHK_ERR, NoneVal)
       ELSE IF par = "parity" THEN Return(DECODE_PAR_ERR, NoneVal)
       ELSE Return(DECODE_OK, Reading5In1(msg_))

decodeBresser5In1Payload(msg_, msgSize) ==
    LET par == parity_loop(msg_, 0, msgSize \div 2)
    IN IF par = "raise" THEN Raise
       ELSE IF par = "parity" THEN Return(DECODE_PAR_ERR, NoneVal)
       ELSE IF Len(msg_) < msgSize THEN Raise       \* msg[p], p in 14..msgSize-1
       ELSE IF count_bits(msg_, 14, msgSize) # B(msg_, 13)
            THEN Return(DECODE_CHK_ERR, NoneVal)
       ELSE Return(DECODE_OK, Reading5In1(msg_))

(***************************************************************************)
(* 7-in-1 and Lightning decoders (whitened frames)                         *)
(***************************************************************************)
\* "msgw[i] = msg[i] ^ 0xaa" for i in range(msgSize)
Dewhiten(msg_, msgSize) == [i \in 1..msgSize |-> Xor(msg_[i], 170)]

Bcd4(msgw, i) ==
    Shr(And(B(msgw, i), 240), 4) * 1000 + And(B(msgw, i), 15) * 100
    + Shr(And(B(msgw, i + 1), 240), 4) * 10 + And(B(msgw, i + 1), 15)

Bcd6(msgw, i) ==
    Hi(B(msgw, i)) * 100000 + Lo(B(msgw, i)) * 10000 + Hi(B(msgw, i + 1)) * 1000
    + Lo(B(msgw, i + 1)) * 100 + Hi(B(msgw, i + 2)) * 10 + Lo(B(msgw, i + 2))

\* Weather7In1 with wind, light and UV kept for sensor type 1 only
Weather7In1_WindType1Only(msgw, stype) ==
    LET wind_light_ok == stype = 1
        wdir == Dig3(Hi(B(msgw, 4)), Lo(B(msgw, 4)), Hi(B(msgw, 5)))
        wgst_raw == Dig3(Hi(B(msgw, 7)), Lo(B(msgw, 7)), Hi(B(msgw, 8)))
        wavg_raw == Dig3(Lo(B(msgw, 8)), Hi(B(msgw, 9)), Lo(B(msgw, 9)))
        rain_raw == Bcd6(msgw, 10)
        temp_raw == Dig3(Hi(B(msgw, 14)), Lo(B(msgw, 14)), Hi(B(msgw, 15)))
        temp_c == IF temp_raw > 600 THEN temp_raw - 1000 ELSE temp_raw
        humidity == Hi(B(msgw, 16)) * 10 + Lo(B(msgw, 16))
        lght_raw == Bcd6(msgw, 17)
        uv_raw == Dig3(Hi(B(msgw, 20)), Lo(B(msgw, 20)), Hi(B(msgw, 21)))
        globe_ok == stype = 13 /\ Hi(B(msgw, 23)) < 10
        tglobe_c == (Hi(B(msgw, 22)) * 10 + Lo(B(msgw, 22))) * 10 + Hi(B(msgw, 23))
    IN [temp_c |-> temp_c, humidity |-> humidity, rain_mm |-> rain_raw]
       @@ Opt(wind_light_ok, "wind_gust_meter_sec", wgst_raw)
       @@ Opt(wind_light_ok, "wind_avg_meter_sec", wavg_raw)
       @@ Opt(wind_light_ok, "wind_direction_deg", wdir)
       @@ Opt(wind_light_ok, "light_lux", lght_raw)
       @@ Opt(wind_light_ok, "uv_index", uv_raw)
       @@ Opt(globe_ok, "globe_temp_c", tglobe_c)

\* the branch for sensor types 1, 12 and 13
Weather7In1(msgw, stype) ==
    LET wind_light_ok == stype # 12
        wdir == Dig3(Hi(B(msgw, 4)), Lo(B(msgw, 4)), Hi(B(msgw, 5)))
        wgst_raw == Dig3(Hi(B(msgw, 7)), Lo(B(msgw, 7)), Hi(B(msgw, 8)))
        wavg_raw == Dig3(Lo(B(msgw, 8)), Hi(B(msgw, 9)), Lo(B(msgw, 9)))
        rain_raw == Bcd6(msgw, 10)
        temp_raw == Dig3(Hi(B(msgw, 14)), Lo(B(msgw, 14)), Hi(B(msgw, 15)))
        temp_c == IF temp_raw > 600 THEN temp_raw - 1000 ELSE temp_raw
        humidity == Hi(B(msgw, 16)) * 10 + Lo(B(msgw, 16))
        lght_raw == Bcd6(msgw, 17)
        uv_raw == Dig3(Hi(B(msgw, 20)), Lo(B(msgw, 20)), Hi(B(msgw, 21)))
        globe_ok == stype = 13 /\ Hi(B(msgw, 23)) < 10
        tglobe_c == (Hi(B(msgw, 22)) * 10 + Lo(B(msgw, 22))) * 10 + Hi(B(msgw, 23))
    IN [temp_c |-> temp_c, humidity |-> humidity, rain_mm |-> rain_raw]
       @@ Opt(wind_light_ok, "wind_gust_meter_sec", wgst_raw)
       @@ Opt(wind_light_ok, "wind_avg_meter_sec", wavg_raw)
       @@ Opt(wind_light_ok, "wind_direction_deg", wdir)
       @@ Opt(wind_light_ok, "light_lux", lght_raw)
       @@ Opt(wind_light_ok, "uv_index", uv_raw)
       @@ Opt(globe_ok, "globe_temp_c", tglobe_c)

AirPm7In1(msgw) ==
    [pm_1_0 |-> Lo(B(msgw, 8)) * 1000 + Hi(B(msgw, 9)) * 100 + Lo(B(msgw, 9)) * 10
                + Hi(B(msgw, 10)),
     pm_2_5 |-> Lo(B(msgw, 10)) * 1000 + Hi(B(msgw, 11)) * 100 + Lo(B(msgw, 11)) * 10
                + Hi(B(msgw, 12)),
     pm_10 |-> Lo(B(msgw, 12)) * 1000 + Hi(B(msgw, 13)) * 100 + Lo(B(msgw, 13)) * 10
               + Hi(B(msgw, 14))]

\* RawFields7In1 reading byte 6 after the de-whitening
RawFields7In1_Dewhitened(msg_) ==
    [stype |-> Shr(Xor(B(msg_, 6), 170), 4),
     startup |-> (And(Xor(B(msg_, 6), 170), 8) = 0),
     ch |-> And(Xor(B(msg_, 6), 170), 7)]

\* sensor type, startup flag and channel, taken from the raw buffer
RawFields7In1(msg_) ==
    [stype |-> Shr(B(msg_, 6), 4),
     startup |-> (And(B(msg_, 6), 8) = 0),
     ch |-> And(B(msg_, 6), 7)]

\* the reading built once the digest has passed; msg_ is the raw buffer
Reading7In1(msg_, msgw) ==
    LET stype == RawFields7In1(msg_).stype
        startup == RawFields7In1(msg_).startup
        ch == RawFields7In1(msg_).ch
        sid == Shl(B(msgw, 2), 8) + B(msgw, 3)
        flags == And(B(msgw, 15), 15)
        batt_ok == ~(And(flags, 6) = 6)
    IN [sensor_id |-> sid, sensor_type |-> stype, channel |-> ch,
        battery_ok |-> batt_ok, startup |-> startup]
       @@ (IF stype = 1 \/ stype = 12 \/ stype = 13 THEN Weather7In1(msgw, stype)
           ELSE IF stype = 8 THEN AirPm7In1(msgw)
           ELSE IF stype = 10 THEN [co2_ppm |-> Bcd4(msgw, 4)]
           ELSE IF stype = 11 THEN [hcho_ppb |-> Bcd4(msgw, 4),
                                    voc_level |-> And(B(msgw, 22), 15)]
           ELSE EmptyDict)

\* decodeBresser7In1Payload turning down the sensor types it has no branch for
decodeBresser7In1Payload_KnownTypesOnly(msg_, msgSize) ==
    IF Len(msg_) < msgSize \/ Len(msg_) < 22 THEN Raise
    ELSE LET msgw == Dewhiten(msg_, msgSize)
             chkdgst == Shl(B(msgw, 0), 8) + B(msgw, 1)
             digest == lfsr_digest16(From(msgw, 2), 23, 34832, 47765)
         IN IF Xor(chkdgst, digest) # 28145 THEN Return(DECODE_DIG_ERR, NoneVal)
            ELSE IF Shr(B(msg_, 6), 4) \notin {1, 8, 10, 11, 12, 13}
                 THEN Return(DECODE_INVALID, NoneVal)
            ELSE Return(DECODE_OK, Reading7In1(msg_, msgw))

\* decodeBresser7In1Payload with the sanity check turning the frame down
decodeBresser7In1Payload_SanityReject(msg_, msgSize) ==
    IF Len(msg_) < msgSize \/ Len(msg_) < 22 THEN Raise
    ELSE IF B(msg_, 21) = 0 THEN Return(DECODE_INVALID, NoneVal)
    ELSE LET msgw == Dewhiten(msg_, msgSize)
             chkdgst == Shl(B(msgw, 0), 8) + B(msgw, 1)
             digest == lfsr_digest16(From(msgw, 2), 23, 34832, 47765)
         IN IF Xor(chkdgst, digest) # 28145 THEN Return(DECODE_DIG_ERR, NoneVal)
            ELSE Return(DECODE_OK, Reading7In1(msg_, msgw))

decodeBresser7In1Payload(msg_, msgSize) ==
    IF Len(msg_) < msgSize \/ Len(msg_) < 22 THEN Raise    \* msg[21], msg[6], msg[i]
    ELSE LET msgw == Dewhiten(msg_, msgSize)
             chkdgst == Shl(B(msgw, 0), 8) + B(msgw, 1)
             digest == lfsr_digest16(From(msgw, 2), 23, 34832, 47765)
         IN IF Xor(chkdgst, digest) # 28145 THEN Return(DECODE_DIG_ERR, NoneVal)
            ELSE Return(DECODE_OK, Reading7In1(msg_, msgw))

ReadingLightning(msg_, msgw) ==
    [sensor_id |-> Shl(B(msgw, 2), 8) + B(msgw, 3),
     sensor_type |-> Shr(B(msg_, 6), 4),
     battery_ok |-> ~(And(B(msgw, 5), 8) = 0),
     startup |-> (And(B(msg_, 6), 8) = 0),
     strike_count |-> Dig3(Shr(B(msgw, 4), 4), And(B(msgw, 4), 15), Shr(B(msgw, 5), 4)),
     distance_km |-> B(msgw, 7)]

\* decodeBresserLightningPayload that builds the result before the digest check
\* and returns it with the error status
decodeBresserLightningPayload_Partial(msg_, msgSize) ==
    IF Len(msg_) < msgSize \/ Len(msg_) < 8 THEN Raise
    ELSE LET msgw == Dewhiten(msg_, msgSize)
             chk == Shl(B(msgw, 0), 8) + B(msgw, 1)
             digest == lfsr_digest16(From(msgw, 2), 8, 34832, 44025)
         IN IF Xor(chk, digest) # 35230
            THEN Return(DECODE_DIG_ERR, ReadingLightning(msg_, msgw))
            ELSE Return(DECODE_OK, ReadingLightning(msg_, msgw))

decodeBresserLightningPayload(msg_, msgSize) ==
    IF Len(msg_) < msgSize \/ Len(msg_) < 7 THEN Raise     \* msg[6], msg[i]
    ELSE LET msgw == Dewhiten(msg_, msgSize)
             chk == Shl(B(msgw, 0), 8) + B(msgw, 1)
             digest == lfsr_digest16(From(msgw, 2), 8, 34832, 44025)
         IN IF Xor(chk, digest) # 35230 THEN Return(DECODE_DIG_ERR, NoneVal)
            ELSE Return(DECODE_OK, ReadingLightning(msg_, msgw))

(***************************************************************************)
(* Leakage decoder                                                         *)
(***************************************************************************)
SENSOR_TYPE_LEAKAGE == 5

\* LeakageFields with the masks of the two alarm flags exchanged
LeakageFields_SwappedFlags(msg_) ==
    [sid |-> Id32(B(msg_, 2), B(msg_, 3), B(msg_, 4), B(msg_, 5)),
     stype |-> Shr(B(msg_, 6), 4),
     ch |-> And(B(msg_, 6), 7),
     startup |-> (And(B(msg_, 6), 8) = 0),
     alarm |-> (And(B(msg_, 7), 64) = 64),
     no_alarm |-> (And(B(msg_, 7), 128) = 128),
     batt_ok |-> (And(B(msg_, 7), 48) # 0)]

\* the locals sid .. batt_ok of decodeBresserLeakagePayload
LeakageFields(msg_) ==
    [sid |-> Id32(B(msg_, 2), B(msg_, 3), B(msg_, 4), B(msg_, 5)),
     stype |-> Shr(B(msg_, 6), 4),
     ch |-> And(B(msg_, 6), 7),
     startup |-> (And(B(msg_, 6), 8) = 0),
     alarm |-> (And(B(msg_, 7), 128) = 128),
     no_alarm |-> (And(B(msg_, 7), 64) = 64),
     batt_ok |-> (And(B(msg_, 7), 48) # 0)]

\* LeakageInsane without the test of the channel
LeakageInsane_AnyChannel(f) ==
    f.stype # SENSOR_TYPE_LEAKAGE \/ f.alarm = f.no_alarm

\* the condition of "# Sanity checks"
LeakageInsane(f) ==
    f.stype # SENSOR_TYPE_LEAKAGE \/ f.alarm = f.no_alarm \/ f.ch = 0

\* decodeBresserLeakagePayload reporting insane frames as checksum errors
decodeBresserLeakagePayload_InsaneIsChkErr(msg_, msgSize) ==
    IF Len(msg_) < 7 THEN Raise                 \* msg[2:][0..4], msg[0], msg[1]
    ELSE LET crc_act == crc16(From(msg_, 2), 5, 4129, 0)
             crc_exp == Shl(B(msg_, 0), 8) + B(msg_, 1)
         IN IF crc_act # crc_exp THEN Return(DECODE_CHK_ERR, NoneVal)
            ELSE IF Len(msg_) < 8 THEN Raise    \* msg[7]
            ELSE LET f == LeakageFields(msg_)
                 IN IF LeakageInsane(f)
                    THEN Return(DECODE_CHK_ERR, NoneVal)
                    ELSE Return(DECODE_OK,
                                [sensor_id |-> f.sid, sensor_type |-> f.stype,
                                 channel |-> f.ch, battery_ok |-> f.batt_ok,
                                 startup |-> f.startup,
                                 alarm |-> (f.alarm /\ ~f.no_alarm)])

\* decodeBresserLeakagePayload with insane frames skipped rather than invalid
decodeBresserLeakagePayload_Skip(msg_, msgSize) ==
    IF Len(msg_) < 7 THEN Raise                 \* msg[2:][0..4], msg[0], msg[1]
    ELSE LET crc_act == crc16(From(msg_, 2), 5, 4129, 0)
             crc_exp == Shl(B(msg_, 0), 8) + B(msg_, 1)
         IN IF crc_act # crc_exp THEN Return(DECODE_CHK_ERR, NoneVal)
            ELSE IF Len(msg_) < 8 THEN Raise    \* msg[7]
            ELSE LET f == LeakageFields(msg_)
                 IN IF LeakageInsane(f)
                    THEN Return(DECODE_SKIP, NoneVal)
                    ELSE Return(DECODE_OK,
                                [sensor_id |-> f.sid, sensor_type |-> f.stype,
                                 channel |-> f.ch, battery_ok |-> f.batt_ok,
                                 startup |-> f.startup,
                                 alarm |-> (f.alarm /\ ~f.no_alarm)])

decodeBresserLeakagePayload(msg_, msgSize) ==
    IF Len(msg_) < 7 THEN Raise                 \* msg[2:][0..4], msg[0], msg[1]
    ELSE LET crc_act == crc16(From(msg_, 2), 5, 4129, 0)
             crc_exp == Shl(B(msg_, 0), 8) + B(msg_, 1)
         IN IF crc_act # crc_exp THEN Return(DECODE_CHK_ERR, NoneVal)
            ELSE IF Len(msg_) < 8 THEN Raise    \* msg[7]
            ELSE LET f == LeakageFields(msg_)
                 IN IF LeakageInsane(f)
                    THEN Return(DECODE_INVALID, NoneVal)
                    ELSE Return(DECODE_OK,
                                [sensor_id |-> f.sid, sensor_type |-> f.stype,
                                 channel |-> f.ch, battery_ok |-> f.batt_ok,
                                 startup |-> f.startup,
                                 alarm |-> (f.alarm /\ ~f.no_alarm)])

(***************************************************************************)
(* Captured frames (the buffers of tests/ and of bresser_decoder.main)     *)
(***************************************************************************)
Msg6In1_1 ==
    << 42,175, 33, 16, 52, 39, 24,255,170,255, 41, 40,255,
      187,137,255,  1, 31,  0,  0,  0,  0,  0,  0,  0,  0>>
Msg6In1_2 ==
    << 84, 27, 33, 16, 52, 39, 24,255,136,255, 41, 40,  6,
       66,135,255,240,198,  0,  0,  0,  0,  0,  0,  0,  0>>
Msg6In1_3 ==
    <<101,167,121, 40,130,162, 24,255,102,255, 37,104,255,
      234,191,255,  1,137,170,  0,  0,  0,  0,  0,  0,  0>>
Msg6In1_Err ==
    << 42,175, 33, 16, 52, 40, 24,255,170,255, 41, 40,255,
      187,137,255,  1, 31,  0,  0,  0,  0,  0,  0,  0,  0>>
Msg6In1_Rx ==
    << 61,145, 57, 88, 88, 35,118, 24,255,255,255, 49, 40,
        5, 22,137,255,240,212,170,  0,  0,  0,  0,  0,  0>>
Msg5In1 ==
    <<234,236,127,235, 95,238,239,250,254,118,187,250,255,
       21, 19,128, 20,160, 17, 16,  5,  1,137, 68,  5,  0>>
Msg5In1_Syn ==
    <<234,127, 95,199,142, 51, 81,197,215,221,187,196,166,
       21,128,160, 56,113,204,174, 58, 40, 34, 68, 59, 89>>
Msg7In1 ==
    <<196,214, 58,197,189,250, 24,170,170,170,170,171,252,
      170,152,218,137,163, 47,236,175,154,170,170,170,  0>>
MsgLightning ==
    <<115,105,181,  8,170,162,144,170,170,170,  0,  0,  0,
        0,  0,  0,  0,  0,  0,127,255,255,255,255,255,255>>
MsgLeakage_1 ==
    <<199,112, 53,151,  4,  8, 87,112,  0,  0,  0,  0,  0,
        0,  0,  0,  3,255,255,255,255,255,255,255,255,255>>
MsgLeakage_2 ==
    <<179,218, 85, 87, 23, 64, 83,112,  0,  0,  0,  0,  0,
        0,  0,  0,  3,255,255,255,255,255,255,255,255,251>>
MsgZero == [i \in 1..26 |-> 0]
MsgFF == [i \in 1..26 |-> 255]
MsgAA == [i \in 1..26 |-> 170]

Frames ==
    [m6in1_1 |-> Msg6In1_1, m6in1_2 |-> Msg6In1_2, m6in1_3 |-> Msg6In1_3,
     m6in1_err |-> Msg6In1_Err, m6in1_rx |-> Msg6In1_Rx,
     m5in1 |-> Msg5In1, m5in1_syn |-> Msg5In1_Syn,
     m7in1 |-> Msg7In1, m7in1_aa |-> MsgAA,
     lightning |-> MsgLightning,
     leakage_1 |-> MsgLeakage_1, leakage_2 |-> MsgLeakage_2,
     zero |-> MsgZero, ff |-> MsgFF]

\* the sensor family a captured frame comes from ("none": no sensor)
Family(b) ==
    IF b \in {"m6in1_1", "m6in1_2", "m6in1_3", "m6in1_err", "m6in1_rx"} THEN "6in1"
    ELSE IF b \in {"m5in1", "m5in1_syn"} THEN "5in1"
    ELSE IF b \in {"m7in1", "m7in1_aa"} THEN "7in1"
    ELSE IF b = "lightning" THEN "Lightning"
    ELSE IF b \in {"leakage_1", "leakage_2"} THEN "Leakage"
    ELSE "none"

(***************************************************************************)
(* The transmitter's side of the integrity checks: the frame m with its    *)
(* digest / checksum / CRC / complement fields recomputed, so that the     *)
(* decoder of the family finds them right                                  *)
(***************************************************************************)
Put(m, i, v) == [m EXCEPT ![i + 1] = v]     \* m[i] = v

Seal6In1(m) ==
    LET m1 == Put(m, 17, And(255 - And(add_bytes(From(m, 2), 15), 255), 255))
        d == lfsr_digest16(From(m1, 2), 15, 34832, 21522)
    IN Put(Put(m1, 0, Shr(d, 8)), 1, And(d, 255))

Seal5In1(m) ==
    LET m1 == Put(m, 13, count_bits(m, 14, 26))
    IN [i \in 1..26 |-> IF i <= 13 THEN Xor(m1[i + 13], 255) ELSE m1[i]]

Seal7In1(m) ==
    LET d == Xor(lfsr_digest16(From(Dewhiten(m, 26), 2), 23, 34832, 47765), 28145)
    IN Put(Put(m, 0, Xor(Shr(d, 8), 170)), 1, Xor(And(d, 255), 170))

SealLightning(m) ==
    LET d == Xor(lfsr_digest16(From(Dewhiten(m, 26), 2), 8, 34832, 44025), 35230)
    IN Put(Put(m, 0, Xor(Shr(d, 8), 170)), 1, Xor(And(d, 255), 170))

SealLeakage(m) ==
    LET c == crc16(From(m, 2), 5, 4129, 0)
    IN Put(Put(m, 0, Shr(c, 8)), 1, And(c, 255))

Seal(f, m) ==
    CASE f = "6in1" -> Seal6In1(m)
      [] f = "5in1" -> Seal5In1(m)
      [] f = "7in1" -> Seal7In1(m)
      [] f = "Lightning" -> SealLightning(m)
      [] f = "Leakage" -> SealLeakage(m)
      [] OTHER -> m

(***************************************************************************)
(* Payload variations: byte index (0-based) :> value                       *)
(***************************************************************************)
Patches6In1 ==
    { 6 :> 72 @@ 14 :> 1,       \* soil sensor (type 4), humidity index 1
      6 :> 72 @@ 14 :> 16,      \* soil sensor, humidity index 10
      6 :> 72 @@ 14 :> 22,      \* soil sensor, humidity index 16
      6 :> 72 @@ 14 :> 23,      \* soil sensor, humidity index 17
      6 :> 72 @@ 14 :> 0,       \* soil sensor, humidity index 0
      6 :> 56,                  \* pool thermometer (type 3)
      6 :> 25,                  \* channel 1
      12 :> 73 @@ 13 :> 154,    \* raw temperature 499, sign bit set
      12 :> 80 @@ 13 :> 10,     \* raw temperature 500, sign bit set
      13 :> 64,                 \* battery bit clear
      7 :> 0,                   \* wind gust byte not BCD
      8 :> 245,                 \* inverted byte 8 = 0x0A
      8 :> 112 @@ 9 :> 102,     \* inverted bytes 8, 9 = 0x8F, 0x99
      15 :> 0,                  \* no UV
      16 :> 241,                \* flags 1
      16 :> 242,                \* flags 2
      18 :> 85 @@ 25 :> 255 }   \* bytes after the payload

Patches5In1 ==
    { 15 :> 57,                 \* professional rain gauge 0x39
      15 :> 187,                \* rain gauge 0x3B, startup bit set
      20 :> 10,                 \* temperature low nibble not a digit
      22 :> 143,                \* humidity low nibble not a digit
      25 :> 129,                \* battery low, negative temperature
      13 :> 0 }                 \* expected bit count 0

Patches7In1 ==
    { 6 :> 200,                 \* raw sensor type 12 (3-in-1)
      6 :> 217 @@ 23 :> 154,    \* raw sensor type 13 (8-in-1), globe temperature valid
      6 :> 208 @@ 23 :> 10,     \* raw sensor type 13, globe temperature invalid
      6 :> 129,                 \* raw sensor type 8 (air quality)
      6 :> 162,                 \* raw sensor type 10 (CO2)
      6 :> 179,                 \* raw sensor type 11 (HCHO/VOC)
      6 :> 32,                  \* raw sensor type 2 (no branch)
      21 :> 0,                  \* sanity warning
      15 :> 172,                \* de-whitened flags 6: battery low
      14 :> 51 @@ 15 :> 186 }   \* raw temperature 991 (negative)

PatchesLightning ==
    { 4 :> 85 @@ 5 :> 85,       \* de-whitened 0xFF 0xFF: largest strike count
      4 :> 51 @@ 5 :> 50,       \* de-whitened 0x99 0x98
      6 :> 152,                 \* startup bit set
      7 :> 85,                  \* distance 255
      10 :> 255 }               \* first byte after the digest range

PatchesLeakage ==
    { 6 :> 80,                  \* channel 0
      6 :> 71,                  \* sensor type 4
      6 :> 89,                  \* channel 1, startup bit set
      7 :> 240,                 \* alarm and no-alarm both set
      7 :> 48,                  \* alarm and no-alarm both clear
      7 :> 176,                 \* alarm
      7 :> 64,                  \* no alarm, battery low
      6 :> 80 @@ 7 :> 176,      \* channel 0, alarm
      8 :> 255 }                \* first byte after the payload

Patches(f) ==
    CASE f = "6in1" -> Patches6In1
      [] f = "5in1" -> Patches5In1
      [] f = "7in1" -> Patches7In1
      [] f = "Lightning" -> PatchesLightning
      [] f = "Leakage" -> PatchesLeakage
      [] OTHER -> {}

Apply(m, p) == [i \in 1..Len(m) |-> IF (i - 1) \in DOMAIN p THEN p[i - 1] ELSE m[i]]

\* m with bit b of byte i inverted
FlipBit(m, i, b) == Put(m, i, Xor(B(m, i), 2 ^ b))

(***************************************************************************)
(* Decoder dispatch                                                        *)
(***************************************************************************)
\* the list "decoders" of getMessage
decoders == <<"7in1", "6in1", "5in1", "Lightning", "Leakage">>
Decoders == {decoders[i] : i \in 1..Len(decoders)}

\* Call that remembers the result of the decoder's previous call and returns it
\* for the next buffer with the same first byte
Call_Cached(d, m, size) ==
    IF dec = d /\ B(m, 0) = B(msg, 0) /\ "exc" \in DOMAIN res
    THEN res
    ELSE CASE d = "7in1" -> decodeBresser7In1Payload(m, size)
           [] d = "6in1" -> decodeBresser6In1Payload(m, size)
           [] d = "5in1" -> decodeBresser5In1Payload(m, size)
           [] d = "Lightning" -> decodeBresserLightningPayload(m, size)
           [] d = "Leakage" -> decodeBresserLeakagePayload(m, size)

\* decoder(m, size)
Call(d, m, size) ==
    CASE d = "7in1" -> decodeBresser7In1Payload(m, size)
      [] d = "6in1" -> decodeBresser6In1Payload(m, size)
      [] d = "5in1" -> decodeBresser5In1Payload(m, size)
      [] d = "Lightning" -> decodeBresserLightningPayload(m, size)
      [] d = "Leakage" -> decodeBresserLeakagePayload(m, size)

\* log_message(level, m): what it prints
log_message(level, m) == IF level <= log_level THEN <<m>> ELSE <<>>

\* the messages decoder d hands to log_message while it works on m and returns r
Warnings(d, m, r) ==
    LET status == IF r.exc THEN DECODE_OK ELSE r.status
    IN CASE d = "6in1" ->
              IF status = DECODE_DIG_ERR THEN <<"Digest check failed">>
              ELSE IF status = DECODE_CHK_ERR THEN <<"Checksum failed">>
              ELSE <<>>
         [] d = "5in1" ->
              IF status = DECODE_PAR_ERR THEN <<"Parity wrong">>
              ELSE IF status = DECODE_CHK_ERR THEN <<"Checksum wrong">>
              ELSE <<>>
         [] d = "7in1" ->
              (IF Len(m) >= 22 /\ B(m, 21) = 0
               THEN <<"Data sanity check failed">> ELSE <<>>)
              \o (IF status = DECODE_DIG_ERR THEN <<"Digest check failed">> ELSE <<>>)
         [] d = "Lightning" ->
              IF status = DECODE_DIG_ERR THEN <<"Digest check failed">> ELSE <<>>
         [] d = "Leakage" ->
              IF status = DECODE_CHK_ERR THEN <<"CRC16 check failed">> ELSE <<>>

\* what the call prints: every message goes through log_message at level WARNING
RECURSIVE LogAll(_)
LogAll(ws) ==
    IF ws = <<>> THEN <<>>
    ELSE log_message(LOG_LEVEL_WARNING, Head(ws)) \o LogAll(Tail(ws))

Logged(d, m, r) == LogAll(Warnings(d, m, r))

(***************************************************************************)
(* SpecDecode: the decoders called directly on a buffer, as tests/ and     *)
(* bresser_decoder.main do.                                                *)
(*   pc = "frame"    a buffer is ready; dec/res hold nothing               *)
(*   pc = "decoded"  decoder dec was called on msg and gave res            *)
(***************************************************************************)
MaxEdits == 1       \* payload variations applied to one captured frame

NoCall == [none |-> TRUE]

\* the levels set_log_level is called with
LogLevels == {LOG_LEVEL_NONE, LOG_LEVEL_ERROR, LOG_LEVEL_WARNING, LOG_LEVEL_INFO,
              LOG_LEVEL_DEBUG}

ReceiverIdle ==
    /\ rawRSSI = <<>>
    /\ rxLast = [status |-> <<>>, before |-> <<>>]
    /\ rcvState = ERR_NONE
    /\ recvData = <<>>
    /\ idx = 1
    /\ decode_res = DECODE_INVALID
    /\ sensor_data = NoneVal
    /\ calls = <<>>
    /\ printed = NoneVal
    /\ ret = DECODE_INVALID
    /\ crcOn = FALSE

receiverVars == <<rawRSSI, rxLast, rcvState, recvData, idx, decode_res, sensor_data, calls,
                  printed, ret, crcOn>>
frameVars == <<msg, base, nedits, sealed, flip, accepted, kept>>

InitDecode ==
    /\ pc = "frame"
    /\ base \in DOMAIN Frames
    /\ msg = Frames[base]
    /\ nedits = 0
    /\ sealed = FALSE
    /\ flip = <<>>
    /\ accepted = "none"
    /\ kept = NoCall
    /\ out = <<>>
    /\ dec = "none"
    /\ res = NoCall
    /\ log_level = LOG_LEVEL_ERROR
    /\ ReceiverIdle

\* the sensor sends another payload
Vary(p) ==
    /\ pc = "frame"
    /\ nedits < MaxEdits
    /\ ~sealed
    /\ flip = <<>>
    /\ p \in Patches(Family(base))
    /\ Apply(msg, p) # msg
    /\ msg' = Apply(msg, p)
    /\ nedits' = nedits + 1
    /\ UNCHANGED <<pc, base, sealed, flip, accepted, kept, out, dec, res, log_level,
                   receiverVars>>

\* the sensor computes the integrity fields of its payload
SealFrame ==
    /\ pc = "frame"
    /\ ~sealed
    /\ flip = <<>>
    /\ Family(base) # "none"
    /\ Seal(Family(base), msg) # msg
    /\ msg' = Seal(Family(base), msg)
    /\ sealed' = TRUE
    /\ UNCHANGED <<pc, base, nedits, flip, accepted, kept, out, dec, res, log_level,
                   receiverVars>>

\* status, data = decoder(msg, 26); a corrupted frame goes back to the decoder
\* that had accepted it
\* MsgAfter with the de-whitening of 7-in-1 and Lightning written back into msg
MsgAfter_InPlace(d, m, size) ==
    IF d \in {"7in1", "Lightning"} /\ Len(m) >= size THEN Dewhiten(m, size) \o From(m, size)
    ELSE m

\* the caller's buffer after decoder d has run on it: the decoders only read
\* msg, the de-whitened bytes go to the new bytearray msgw
MsgAfter(d, m, size) == m

Decode(d) ==
    /\ pc = "frame"
    /\ accepted \in {"none", d}
    /\ nedits = 0 \/ d = Family(base)     \* modified frames: their own decoder
    /\ \E r \in {Call(d, msg, MSG_SIZE)} :
          /\ dec' = d
          /\ res' = r
          /\ msg' = MsgAfter(d, msg, MSG_SIZE)
          /\ out' = Logged(d, msg, r)
          /\ kept' = IF kept = NoCall
                     THEN [decoder |-> d, msg |-> msg, res |-> r, level |-> log_level,
                           out |-> Logged(d, msg, r)]
                     ELSE kept
    /\ pc' = "decoded"
    /\ UNCHANGED <<base, nedits, sealed, flip, accepted, log_level, receiverVars>>

\* set_log_level(level), between two calls of a decoder
\* (explored after calls on captured frames, and after calls with something to
\* log on modified frames whose integrity fields were recomputed)
SetLogLevel(level) ==
    /\ pc = "decoded"
    /\ flip = <<>> \/ flip = <<0, 0>>
    /\ nedits = 0 \/ (sealed /\ Warnings(dec, msg, res) # <<>>)
    /\ level # log_level
    /\ log_level' = level
    /\ pc' = "levelled"
    /\ UNCHANGED <<frameVars, out, dec, res, receiverVars>>

\* the first call is made again, on the same buffer
Again ==
    /\ pc \in {"decoded", "levelled"}
    /\ nedits = 0 \/ pc = "levelled"
    /\ \E r \in {Call(kept.decoder, kept.msg, MSG_SIZE)} :
          /\ dec' = kept.decoder
          /\ res' = r
          /\ out' = Logged(kept.decoder, kept.msg, r)
    /\ kept' = [kept EXCEPT !.msg = MsgAfter(kept.decoder, kept.msg, MSG_SIZE)]
    /\ pc' = "again"
    /\ UNCHANGED <<msg, base, nedits, sealed, flip, accepted, log_level, receiverVars>>

\* one bit of a captured frame that decoder dec accepted is inverted on the way
Corrupt(i, b) ==
    /\ pc = "decoded"
    /\ ~res.exc
    /\ res.status = DECODE_OK
    /\ flip = <<>>
    /\ nedits = 0
    /\ msg' = FlipBit(msg, i, b)
    /\ flip' = <<i, b>>
    /\ accepted' = dec
    /\ pc' = "frame"
    /\ dec' = "none"
    /\ res' = NoCall
    /\ out' = <<>>
    /\ UNCHANGED <<base, nedits, sealed, kept, log_level, receiverVars>>

NextDecode ==
    \/ \E p \in Patches(Family(base)) : Vary(p)
    \/ SealFrame
    \/ \E d \in Decoders : Decode(d)
    \/ \E i \in 0..25, b \in 0..7 : Corrupt(i, b)
    \/ \E level \in LogLevels : SetLogLevel(level)
    \/ Again

SpecDecode == InitDecode /\ [][NextDecode]_vars

(***************************************************************************)
(* Spec: the main loop of main.py, "while True: res = getMessage()".       *)
(*   pc = "start"     before the first getMessage                          *)
(*   pc = "loop"      in "for decoder in decoders", about to call          *)
(*                    decoders[idx]                                        *)
(*   pc = "print"     after the loop                                       *)
(*   pc = "returned"  getMessage has returned ret                          *)
(*   pc = "crashed"   an IndexError left getMessage and ended the program  *)
(***************************************************************************)
SyncBytes == {SYNC_BYTE, 45}            \* first byte received: 0xD4, or another one
RxLengths == {0, 1, 22, RX_LENGTH}             \* bytes readData got out of the FIFO
RssiVals == {40, 200}                   \* RSSI status byte

\* the frames on the air
AirFrames ==
    {Frames[b] : b \in DOMAIN Frames}
    \cup {Seal("Leakage", Apply(MsgLeakage_1, p)) : p \in PatchesLeakage}

FrameIdle ==
    /\ msg = <<>>
    /\ base = "none"
    /\ nedits = 0
    /\ sealed = FALSE
    /\ flip = <<>>
    /\ accepted = "none"
    /\ kept = NoCall

Init ==
    /\ pc = "start"
    /\ FrameIdle
    /\ out = <<>>
    /\ dec = "none"
    /\ res = NoCall
    /\ log_level = LOG_LEVEL_ERROR
    /\ rawRSSI = <<>>
    /\ rxLast = [status |-> <<>>, before |-> <<>>]
    /\ rcvState = ERR_NONE
    /\ recvData = <<>>
    /\ idx = 1
    /\ decode_res = DECODE_INVALID
    /\ sensor_data = NoneVal
    /\ calls = <<>>
    /\ printed = NoneVal
    /\ ret = DECODE_INVALID
    /\ crcOn \in BOOLEAN

\* Dispatch without the comparison of recvData[0] with 0xD4
Dispatch_NoSync(state, data) ==
    /\ rcvState' = state
    /\ recvData' = data
    /\ decode_res' = DECODE_INVALID
    /\ sensor_data' = NoneVal
    /\ idx' = 1
    /\ calls' = <<>>
    /\ printed' = NoneVal
    /\ dec' = "none"
    /\ res' = NoCall
    /\ out' = <<>>
    /\ IF state = ERR_NONE
       THEN IF Len(data) = 0
            THEN pc' = "crashed" /\ UNCHANGED ret
            ELSE pc' = "loop" /\ UNCHANGED ret
       ELSE pc' = "returned" /\ ret' = DECODE_INVALID

\* the part of getMessage from "decode_res = DECODE_INVALID" to the for loop,
\* given what cc1101.receive(27) returned
Dispatch(state, data) ==
    /\ rcvState' = state
    /\ recvData' = data
    /\ decode_res' = DECODE_INVALID
    /\ sensor_data' = NoneVal
    /\ idx' = 1
    /\ calls' = <<>>
    /\ printed' = NoneVal
    /\ dec' = "none"
    /\ res' = NoCall
    /\ out' = <<>>
    /\ IF state = ERR_NONE
       THEN IF Len(data) = 0
            THEN pc' = "crashed" /\ UNCHANGED ret          \* recvData[0]: IndexError
            ELSE IF B(data, 0) = SYNC_BYTE
                 THEN pc' = "loop" /\ UNCHANGED ret
                 ELSE pc' = "returned" /\ ret' = DECODE_INVALID
       ELSE pc' = "returned" /\ ret' = DECODE_INVALID

\* startReceive leaving _rawRSSI as it was
startReceive_KeepRssi(raw) == raw

\* what startReceive makes of _rawRSSI: "self._rawRSSI = None"
startReceive(raw) == <<>>

\* getRSSI, in half dBm: from the packet's status byte when there is one, else
\* from the RSSI register, whose content is reg
getRSSI(raw, reg) ==
    IF raw # <<>>
    THEN IF raw[1] >= 128 THEN (raw[1] - 256) - 148 ELSE raw[1] - 148
    ELSE IF reg >= 128 THEN (reg - 256) - 148 ELSE reg - 148

\* getMessage, cc1101.receive times out: startReceive, then no packet
ReceiveTimeout ==
    /\ pc \in {"start", "returned"}
    /\ rawRSSI' = startReceive(rawRSSI)
    /\ rxLast' = [status |-> <<>>, before |-> rawRSSI]
    /\ Dispatch(ERR_RX_TIMEOUT, <<>>)
    /\ UNCHANGED <<frameVars, log_level, crcOn>>

\* getMessage, cc1101.receive reads a packet whose CRC status bit is clear
ReceiveCrcMismatch(rssi) ==
    /\ pc \in {"start", "returned"}
    /\ crcOn
    /\ rawRSSI' = <<rssi>>
    /\ rxLast' = [status |-> <<rssi>>, before |-> rawRSSI]
    /\ Dispatch(ERR_CRC_MISMATCH, <<>>)
    /\ UNCHANGED <<frameVars, log_level, crcOn>>

\* getMessage, cc1101.receive reads n bytes of a packet: byte first, then frame
ReceiveData(first, frame, n, rssi) ==
    /\ pc \in {"start", "returned"}
    /\ rawRSSI' = <<rssi>>
    /\ rxLast' = [status |-> <<rssi>>, before |-> rawRSSI]
    /\ Dispatch(ERR_NONE, SubSeq(<<first>> \o frame, 1, n))
    /\ UNCHANGED <<frameVars, log_level, crcOn>>

\* getMessage, cc1101.receive reads n bytes of a packet while PKTCTRL1 reads as
\* "no status bytes appended": readData leaves _rawRSSI as startReceive set it
ReceiveNoStatus(first, frame, n) ==
    /\ pc \in {"start", "returned"}
    /\ rawRSSI' = startReceive(rawRSSI)
    /\ rxLast' = [status |-> <<>>, before |-> rawRSSI]
    /\ Dispatch(ERR_NONE, SubSeq(<<first>> \o frame, 1, n))
    /\ UNCHANGED <<frameVars, log_level, crcOn>>

\* DecoderCall without the "break"
DecoderCall_NoBreak ==
    /\ pc = "loop"
    /\ \E d \in {decoders[idx]}, m \in {From(recvData, 1)} :
       \E r \in {Call(d, m, MSG_SIZE)} :
          /\ dec' = d
          /\ res' = r
          /\ out' = Logged(d, m, r)
          /\ calls' = Append(calls, [decoder |-> d, msg |-> m, size |-> MSG_SIZE, res |-> r])
          /\ IF r.exc
             THEN pc' = "crashed" /\ UNCHANGED <<decode_res, sensor_data, idx>>
             ELSE /\ decode_res' = r.status
                  /\ sensor_data' = r.data
                  /\ IF idx = Len(decoders)
                     THEN pc' = "print" /\ UNCHANGED idx
                     ELSE pc' = "loop" /\ idx' = idx + 1
    /\ UNCHANGED <<frameVars, log_level, rawRSSI, rxLast, rcvState, recvData, printed, ret, crcOn>>

\* one pass of "for decoder in decoders"
DecoderCall ==
    /\ pc = "loop"
    /\ \E d \in {decoders[idx]}, m \in {From(recvData, 1)} :
       \E r \in {Call(d, m, MSG_SIZE)} :
          /\ dec' = d
          /\ res' = r
          /\ out' = Logged(d, m, r)
          /\ calls' = Append(calls, [decoder |-> d, msg |-> m, size |-> MSG_SIZE, res |-> r])
          /\ IF r.exc
             THEN pc' = "crashed" /\ UNCHANGED <<decode_res, sensor_data, idx>>
             ELSE /\ decode_res' = r.status
                  /\ sensor_data' = r.data
                  /\ IF r.status = DECODE_OK \/ r.status = DECODE_SKIP
                     THEN pc' = "print" /\ UNCHANGED idx
                     ELSE IF idx = Len(decoders)
                          THEN pc' = "print" /\ UNCHANGED idx
                          ELSE pc' = "loop" /\ idx' = idx + 1
    /\ UNCHANGED <<frameVars, log_level, rawRSSI, rxLast, rcvState, recvData, printed, ret, crcOn>>

\* GetMessageReturn that reports the first decoder's failure, not the last one's
GetMessageReturn_FirstAttempt ==
    /\ pc = "print"
    /\ printed' = IF decode_res = DECODE_OK THEN sensor_data ELSE NoneVal
    /\ ret' = IF decode_res = DECODE_OK THEN decode_res ELSE calls[1].res.status
    /\ pc' = "returned"
    /\ UNCHANGED <<frameVars, out, dec, res, log_level, rawRSSI, rxLast, rcvState, recvData, idx,
                   decode_res, sensor_data, calls, crcOn>>

\* "if decode_res == DECODE_OK: print_sensor_data(sensor_data)" and the return
GetMessageReturn ==
    /\ pc = "print"
    /\ printed' = IF decode_res = DECODE_OK THEN sensor_data ELSE NoneVal
    /\ ret' = decode_res
    /\ pc' = "returned"
    /\ UNCHANGED <<frameVars, out, dec, res, log_level, rawRSSI, rxLast, rcvState, recvData, idx,
                   decode_res, sensor_data, calls, crcOn>>

Next ==
    \/ ReceiveTimeout
    \/ \E rssi \in RssiVals : ReceiveCrcMismatch(rssi)
    \/ \E first \in SyncBytes, frame \in AirFrames, n \in RxLengths, rssi \in RssiVals :
           ReceiveData(first, frame, n, rssi)
    \/ \E first \in SyncBytes, frame \in AirFrames, n \in RxLengths :
           ReceiveNoStatus(first, frame, n)
    \/ DecoderCall
    \/ GetMessageReturn

Spec == Init /\ [][Next]_vars

(***************************************************************************)
(* Properties                                                              *)
(***************************************************************************)
\* a returned reading: a dict with at least one field
IsReading(data) == data # NoneVal /\ "None" \notin DOMAIN data /\ DOMAIN data # {}

\* C1: each of the five decoders, given a 26-byte buffer, returns either
\* DECODE_OK with a non-empty reading or another status with None: never a
\* reading with a non-OK status, never DECODE_OK without a reading.
C1_ReadingOnlyWithOk ==
    (pc = "decoded" /\ Len(msg) = 26) =>
        /\ ~res.exc
        /\ \/ res.status = DECODE_OK /\ IsReading(res.data)
           \/ res.status # DECODE_OK /\ res.data = NoneVal

\* a re-computed, modified Lightning frame is decoded to a reading
C1_Witness ==
    /\ pc = "decoded"
    /\ dec = "Lightning"
    /\ sealed
    /\ nedits = 1
    /\ Len(msg) = 26
    /\ res.status = DECODE_OK
    /\ Has(res.data, "strike_count")

\* the order of the decoders, as the claim C2 gives it
OrderC2 == <<"7in1", "6in1", "5in1", "Lightning", "Leakage">>

\* C2: getMessage tries the decoders in the order 7-in-1, 6-in-1, 5-in-1,
\* Lightning, Leakage; a decoder is invoked only after all decoders before it
\* returned a status other than DECODE_OK and DECODE_SKIP, none is invoked
\* after a DECODE_OK or DECODE_SKIP, and each at most once per buffer.
C2_FixedOrder ==
    /\ Len(calls) <= 5
    /\ \A i \in 1..Len(calls) : calls[i].decoder = OrderC2[i]
    /\ \A i \in 1..(Len(calls) - 1) :
          /\ ~calls[i].res.exc
          /\ calls[i].res.status \notin {DECODE_OK, DECODE_SKIP}
    /\ pc = "loop" =>
          /\ idx = Len(calls) + 1
          /\ \A i \in 1..Len(calls) :
                /\ ~calls[i].res.exc
                /\ calls[i].res.status \notin {DECODE_OK, DECODE_SKIP}
    /\ (pc \in {"print", "returned"} /\ 0 < Len(calls) /\ Len(calls) < 5) =>
          calls[Len(calls)].res.status \in {DECODE_OK, DECODE_SKIP}

\* the 5-in-1 decoder accepts a frame after 7-in-1 and 6-in-1 rejected it, and
\* the loop ends there
C2_Witness ==
    /\ pc = "returned"
    /\ Len(calls) = 3
    /\ calls[1].res.status = DECODE_DIG_ERR
    /\ calls[3].decoder = "5in1"
    /\ calls[3].res.status = DECODE_OK
    /\ ret = DECODE_OK

\* C3: when all five decoders reject the buffer, getMessage returns the status
\* the Leakage decoder returned, which is DECODE_CHK_ERR or DECODE_INVALID.
C3_LastStatus ==
    (/\ pc = "returned"
     /\ Len(calls) = 5
     /\ \A i \in 1..5 : ~calls[i].res.exc /\ calls[i].res.status # DECODE_OK) =>
        /\ calls[5].decoder = "Leakage"
        /\ ret = calls[5].res.status
        /\ ret \in {DECODE_CHK_ERR, DECODE_INVALID}

\* the all-zero frame: 6-in-1 fails on the checksum, Leakage on the sanity
\* checks, and DECODE_INVALID is returned
C3_Witness ==
    /\ pc = "returned"
    /\ Len(calls) = 5
    /\ calls[1].res.status = DECODE_DIG_ERR
    /\ calls[2].res.status = DECODE_CHK_ERR
    /\ calls[3].res.status = DECODE_PAR_ERR
    /\ calls[5].res.status = DECODE_INVALID
    /\ ret = DECODE_INVALID

\* C4: a decoder is invoked only when the receive status is ERR_NONE and byte 0
\* of the buffer is 0xD4, and then with the buffer without its first byte and
\* size 26; after a timeout, another error or another first byte no decoder is
\* invoked, no sensor data is printed and getMessage returns DECODE_INVALID.
C4_SyncGate ==
    /\ calls # <<>> =>
          /\ rcvState = ERR_NONE
          /\ recvData # <<>>
          /\ B(recvData, 0) = 212
          /\ \A i \in 1..Len(calls) :
                /\ calls[i].msg = SubSeq(recvData, 2, Len(recvData))
                /\ calls[i].size = 26
                /\ Len(recvData) = 27 => Len(calls[i].msg) = 26
    /\ (pc = "returned"
        /\ (rcvState # ERR_NONE \/ (recvData # <<>> /\ B(recvData, 0) # 212))) =>
          /\ calls = <<>>
          /\ printed = NoneVal
          /\ ret = DECODE_INVALID

\* a complete 6-in-1 frame follows a first byte other than 0xD4 and is dropped
C4_Witness ==
    /\ pc = "returned"
    /\ rcvState = ERR_NONE
    /\ Len(recvData) = 27
    /\ B(recvData, 0) # 212
    /\ SubSeq(recvData, 2, 27) = Msg6In1_2
    /\ calls = <<>>
    /\ printed = NoneVal
    /\ ret = DECODE_INVALID

\* byte[i] XOR byte[i+13] != 0xFF for some i in 0..12
ParityBroken(m) == \E i \in 0..12 : Xor(B(m, i), B(m, i + 13)) # 255

\* C5: the 5-in-1 decoder returns DECODE_PAR_ERR and no reading for every
\* 26-byte buffer with byte[i] XOR byte[i+13] != 0xFF for some i in 0..12,
\* whether or not the count of set bits matches.
C5_ParityFirst ==
    (pc = "decoded" /\ dec = "5in1" /\ Len(msg) = 26 /\ ParityBroken(msg)) =>
        res = Return(DECODE_PAR_ERR, NoneVal)

\* one bit of the inverted half of an accepted 5-in-1 frame is corrupted: the
\* count of set bits still matches, the parity does not
C5_Witness ==
    /\ pc = "decoded"
    /\ dec = "5in1"
    /\ accepted = "5in1"
    /\ flip # <<>>
    /\ ParityBroken(msg)
    /\ count_bits(msg, 14, 26) = B(msg, 13)
    /\ res = Return(DECODE_PAR_ERR, NoneVal)

\* the condition of C6 on bytes 6 and 7: alarm bit equal to the no-alarm bit,
\* or channel 0, or a sensor type other than 5
GateC6(m) ==
    \/ (And(B(m, 7), 128) = 128) = (And(B(m, 7), 64) = 64)
    \/ And(B(m, 6), 7) = 0
    \/ Shr(B(m, 6), 4) # 5

\* the CRC16/XMODEM of bytes 2..6 is the big-endian value of bytes 0..1
CrcMatches(m) == crc16(From(m, 2), 5, 4129, 0) = B(m, 0) * 256 + B(m, 1)

\* C6 as stated: the Leakage decoder returns DECODE_INVALID for all inputs whose
\* alarm bit equals the no-alarm bit, or whose channel is 0, or whose sensor
\* type is not 5.
C6_Original ==
    (pc = "decoded" /\ dec = "Leakage" /\ Len(msg) = 26 /\ GateC6(msg)) =>
        (~res.exc /\ res.status = DECODE_INVALID)

\* C6 amended: the Leakage decoder returns DECODE_INVALID and no reading for
\* all inputs whose CRC16 over bytes 2..6 matches bytes 0..1 and whose alarm bit
\* equals the no-alarm bit, or whose channel is 0, or whose sensor type is not
\* 5; with a CRC that does not match it returns DECODE_CHK_ERR.
C6_GateAfterCrc ==
    (pc = "decoded" /\ dec = "Leakage" /\ Len(msg) = 26 /\ GateC6(msg)) =>
        res = Return(IF CrcMatches(msg) THEN DECODE_INVALID ELSE DECODE_CHK_ERR, NoneVal)

\* a leakage frame with a right CRC, type 5, one alarm flag and channel 0
C6_Witness ==
    /\ pc = "decoded"
    /\ dec = "Leakage"
    /\ CrcMatches(msg)
    /\ Shr(B(msg, 6), 4) = 5
    /\ And(B(msg, 6), 7) = 0
    /\ And(B(msg, 7), 192) \in {64, 128}
    /\ res = Return(DECODE_INVALID, NoneVal)

BufferC7 ==
    <<199, 112, 53, 151, 4, 8, 87, 112, 0, 0, 0, 0, 0, 0, 0, 0, 3,
      255, 255, 255, 255, 255, 255, 255, 255, 255>>

\* C7 as stated: the Leakage decoder returns DECODE_OK and alarm = true for the
\* buffer C7, 70, 35, 97, 04, 08, 57, 70, 8 x 00, 03, 9 x FF.
C7_Original ==
    (pc = "decoded" /\ dec = "Leakage" /\ msg = BufferC7) =>
        (~res.exc /\ res.status = DECODE_OK /\ res.data.alarm = TRUE)

\* C7 amended: for that buffer the Leakage decoder returns DECODE_OK with a
\* reading whose alarm field is false (byte 7 is 0x70: the alarm bit is clear
\* and the no-alarm bit is set).
C7_NoAlarm ==
    (pc = "decoded" /\ dec = "Leakage" /\ msg = BufferC7) =>
        /\ ~res.exc
        /\ res.status = DECODE_OK
        /\ Has(res.data, "alarm")
        /\ res.data.alarm = FALSE

C7_Witness ==
    /\ pc = "decoded"
    /\ dec = "Leakage"
    /\ msg = BufferC7
    /\ And(B(msg, 7), 128) = 0
    /\ And(B(msg, 7), 64) = 64
    /\ res.status = DECODE_OK
    /\ res.data.channel = 7

BufferC8 ==
    <<84, 27, 33, 16, 52, 39, 24, 255, 136, 255, 41, 40, 6, 66, 135, 255, 240, 198,
      0, 0, 0, 0, 0, 0, 0, 0>>

\* C8: the 6-in-1 decoder, on the buffer 54 1B 21 10 34 27 18 FF 88 FF 29 28 06
\* 42 87 FF F0 C6 and eight 00, finds the digest and the checksum right and
\* returns DECODE_OK with sensor_id 0x21103427, temp_c 6.4 (64 tenths),
\* humidity 87, battery_ok set and no rain_mm.
C8_Golden6In1 ==
    (pc = "decoded" /\ dec = "6in1" /\ msg = BufferC8) =>
        /\ lfsr_digest16(From(msg, 2), 15, 34832, 21522) = 84 * 256 + 27
        /\ add_bytes(From(msg, 2), 16) % 256 = 255
        /\ ~res.exc
        /\ res.status = DECODE_OK
        /\ res.data.sensor_id = <<8464, 13351>>       \* 0x2110, 0x3427
        /\ Has(res.data, "temp_c")
        /\ res.data.temp_c = 64
        /\ Has(res.data, "humidity")
        /\ res.data.humidity = 87
        /\ res.data.battery_ok = 1
        /\ ~Has(res.data, "rain_mm")

C8_Witness ==
    /\ pc = "decoded"
    /\ dec = "6in1"
    /\ msg = BufferC8
    /\ base = "m6in1_2"
    /\ res.status = DECODE_OK
    /\ Has(res.data, "wind_direction_deg")

AllZero == [i \in 1..26 |-> 0]
AllFF == [i \in 1..26 |-> 255]

\* C9: every decoder rejects the all-0x00 and the all-0xFF buffer of 26 bytes:
\* the status is not DECODE_OK and no reading is returned.
C9_ZeroAndFFRejected ==
    (pc = "decoded" /\ msg \in {AllZero, AllFF}) =>
        /\ ~res.exc
        /\ res.status # DECODE_OK
        /\ res.data = NoneVal

\* the all-zero buffer has the 6-in-1 digest right (0 = 0) and fails on the
\* checksum
C9_Witness ==
    /\ pc = "decoded"
    /\ dec = "6in1"
    /\ msg = AllZero
    /\ lfsr_digest16(From(msg, 2), 15, 34832, 21522) = 0
    /\ res = Return(DECODE_CHK_ERR, NoneVal)

\* the bytes the claim C10 names for each decoder
CoveredC10(d, i) ==
    \/ d = "6in1" /\ i \in 0..16
    \/ d = "7in1" /\ i \in 0..24
    \/ d = "Lightning" /\ i \in 0..9

\* C10: after one bit in bytes 0..16 (6-in-1), 0..24 (7-in-1) or 0..9
\* (Lightning) of a frame the decoder accepted is inverted, the same decoder
\* returns DECODE_DIG_ERR.
C10_BitFlipCaught ==
    (/\ pc = "decoded"
     /\ flip # <<>>
     /\ dec = accepted
     /\ CoveredC10(dec, flip[1])) =>
        res = Return(DECODE_DIG_ERR, NoneVal)

\* the lowest bit of the last covered byte of an accepted 7-in-1 frame
C10_Witness ==
    /\ pc = "decoded"
    /\ flip = <<24, 0>>
    /\ accepted = "7in1"
    /\ dec = "7in1"
    /\ res = Return(DECODE_DIG_ERR, NoneVal)

HumC12(m) == (B(m, 14) \div 16) * 10 + (B(m, 14) % 16)

\* C12: an accepted 6-in-1 frame with sensor type 4, flags 0 and humidity value
\* h in 1..16 gives moisture = MOISTURE_MAP[h-1] (h=1: 0, h=10: 60, h=16: 99)
\* and no humidity; any other accepted frame gives no moisture.
C12_MoistureRemap ==
    (pc = "decoded" /\ dec = "6in1" /\ ~res.exc /\ res.status = DECODE_OK) =>
        IF B(msg, 6) \div 16 = 4 /\ B(msg, 16) % 16 = 0 /\ HumC12(msg) \in 1..16
        THEN /\ Has(res.data, "moisture")
             /\ res.data.moisture = MOISTURE_MAP[HumC12(msg)]
             /\ HumC12(msg) = 1 => res.data.moisture = 0
             /\ HumC12(msg) = 10 => res.data.moisture = 60
             /\ HumC12(msg) = 16 => res.data.moisture = 99
             /\ ~Has(res.data, "humidity")
        ELSE ~Has(res.data, "moisture")

\* a soil sensor frame with humidity value 16
C12_Witness ==
    /\ pc = "decoded"
    /\ dec = "6in1"
    /\ B(msg, 6) \div 16 = 4
    /\ B(msg, 16) % 16 = 0
    /\ HumC12(msg) = 16
    /\ res.status = DECODE_OK
    /\ res.data.moisture = 99

\* C13: a decoder call leaves its input buffer and the log level as they were
\* (7-in-1 and Lightning de-whiten into a copy); the log level changes only in
\* set_log_level.
C13_NoSideEffect ==
    [][/\ (pc = "frame" /\ pc' = "decoded") => (msg' = msg /\ log_level' = log_level)
       /\ pc' = "again" => (kept'.msg = kept.msg /\ log_level' = log_level)
       /\ log_level' # log_level => (pc = "decoded" /\ pc' = "levelled")]_vars

\* a 7-in-1 frame was accepted at a raised log level, and the buffer still
\* holds the whitened bytes that were handed in
C13_Witness ==
    /\ pc = "again"
    /\ dec = "7in1"
    /\ res.status = DECODE_OK
    /\ kept.msg = msg
    /\ Dewhiten(msg, MSG_SIZE) # msg
    /\ log_level # kept.level

\* C14: every reading of the Lightning decoder has 0 <= strike_count <= 1599,
\* whatever accepted buffer it was decoded from.
C14_StrikeCountMax ==
    (pc = "decoded" /\ dec = "Lightning" /\ ~res.exc /\ res.status = DECODE_OK) =>
        (res.data.strike_count >= 0 /\ res.data.strike_count <= 1599)

\* byte i (counted from 0) of buffer m after the XOR with 0xAA
WhiteC15(m, i) == Xor(m[i + 1], 170)

\* C15: in an accepted 7-in-1 frame sensor_type, channel and startup come from
\* raw byte 6 (type = byte >> 4, channel = byte & 7, startup iff bit 3 clear);
\* sensor_id, battery_ok, the digest check and the measurements come from the
\* bytes XORed with 0xAA; the reported type is the high nibble of de-whitened
\* byte 6 XOR 0xA.
C15_RawAndDewhitened ==
    (pc = "decoded" /\ dec = "7in1" /\ ~res.exc /\ res.status = DECODE_OK) =>
        /\ res.data.sensor_type = msg[7] \div 16
        /\ res.data.channel = msg[7] % 8
        /\ res.data.startup = ((msg[7] \div 8) % 2 = 0)
        /\ res.data.sensor_type = Xor(WhiteC15(msg, 6) \div 16, 10)
        /\ res.data.sensor_id = WhiteC15(msg, 2) * 256 + WhiteC15(msg, 3)
        /\ res.data.battery_ok = ((WhiteC15(msg, 15) \div 2) % 4 # 3)
        /\ Xor(WhiteC15(msg, 0) * 256 + WhiteC15(msg, 1),
               lfsr_digest16([i \in 1..23 |-> WhiteC15(msg, i + 1)], 23, 34832, 47765))
           = 28145
        /\ Has(res.data, "humidity") =>
              res.data.humidity = (WhiteC15(msg, 16) \div 16) * 10 + (WhiteC15(msg, 16) % 16)
        /\ Has(res.data, "co2_ppm") =>
              res.data.co2_ppm = (WhiteC15(msg, 4) \div 16) * 1000
                                 + (WhiteC15(msg, 4) % 16) * 100
                                 + (WhiteC15(msg, 5) \div 16) * 10 + (WhiteC15(msg, 5) % 16)

\* the captured 7-in-1 frame, accepted: raw byte 6 is 0x18, the reading has
\* type 1, channel 0, not starting up, and a humidity
C15_Witness ==
    /\ pc = "decoded"
    /\ dec = "7in1"
    /\ res.status = DECODE_OK
    /\ msg[7] = 24
    /\ res.data.sensor_type = 1
    /\ res.data.channel = 0
    /\ ~res.data.startup
    /\ Has(res.data, "humidity")

\* the statuses the docstring of each decoder lists
DocumentedC16(d) ==
    CASE d = "6in1" -> {DECODE_OK, DECODE_DIG_ERR, DECODE_CHK_ERR}
      [] d = "5in1" -> {DECODE_OK, DECODE_PAR_ERR, DECODE_CHK_ERR}
      [] d = "7in1" -> {DECODE_OK, DECODE_DIG_ERR}
      [] d = "Lightning" -> {DECODE_OK, DECODE_DIG_ERR}
      [] d = "Leakage" -> {DECODE_OK, DECODE_CHK_ERR, DECODE_INVALID}

\* C16: whatever the input, a decoder that returns gives one of its documented
\* statuses (6-in-1: OK, DIG_ERR, CHK_ERR; 5-in-1: OK, PAR_ERR, CHK_ERR; 7-in-1
\* and Lightning: OK, DIG_ERR; Leakage: OK, CHK_ERR, INVALID), and never SKIP
\* or FULL.
C16_DocumentedStatuses ==
    (pc \in {"decoded", "again"} /\ ~res.exc) =>
        /\ res.status \in DocumentedC16(dec)
        /\ res.status \notin {DECODE_SKIP, DECODE_FULL}

\* the Leakage decoder turned down a frame whose CRC is right
C16_Witness ==
    /\ pc = "decoded"
    /\ dec = "Leakage"
    /\ ~res.exc
    /\ res.status = DECODE_INVALID

\* the LFSR-16 digest of bytes 2..16 equals the big-endian bytes 0..1
DigestOkC17(m) ==
    lfsr_digest16([i \in 1..15 |-> m[i + 2]], 15, 34832, 21522) = m[1] * 256 + m[2]

\* the sum of bytes 2..17, taken modulo 256, is 0xFF
SumOkC17(m) ==
    (m[3] + m[4] + m[5] + m[6] + m[7] + m[8] + m[9] + m[10] + m[11] + m[12]
     + m[13] + m[14] + m[15] + m[16] + m[17] + m[18]) % 256 = 255

\* C17: the 6-in-1 decoder returns DIG_ERR exactly when the digest (generator
\* 0x8810, key 0x5412) of bytes 2..16 differs from bytes 0..1, CHK_ERR exactly
\* when the digest matches and the low byte of the sum of bytes 2..17 is not
\* 0xFF, and OK otherwise; a frame failing both gets DIG_ERR.
C17_DigestBeforeChecksum ==
    (pc = "decoded" /\ dec = "6in1" /\ ~res.exc) =>
        /\ res.status = DECODE_DIG_ERR <=> ~DigestOkC17(msg)
        /\ res.status = DECODE_CHK_ERR <=> (DigestOkC17(msg) /\ ~SumOkC17(msg))
        /\ res.status = DECODE_OK <=> (DigestOkC17(msg) /\ SumOkC17(msg))

\* a frame failing both tests was given DIG_ERR
C17_Witness ==
    /\ pc = "decoded"
    /\ dec = "6in1"
    /\ ~DigestOkC17(msg)
    /\ ~SumOkC17(msg)
    /\ res.status = DECODE_DIG_ERR

\* the buffer the last decoder call was made on
BufferC18 == IF pc = "again" THEN kept.msg ELSE msg

\* big-endian de-whitened bytes 0..1 XOR the LFSR-16 digest (generator 0x8810,
\* key 0xBA95) of de-whitened bytes 2..24
DigestXorC18(m) ==
    Xor(Xor(m[1], 170) * 256 + Xor(m[2], 170),
        lfsr_digest16([i \in 1..23 |-> Xor(m[i + 2], 170)], 23, 34832, 47765))

\* C18: the 7-in-1 decoder returns OK exactly when the digest XOR is 0x6DF1
\* and DIG_ERR otherwise; raw byte 21 = 0x00 leads to a warning (printed at
\* log level WARNING and above) and changes neither the status nor the
\* reading being there.
C18_StatusFromDigestOnly ==
    (pc \in {"decoded", "again"} /\ dec = "7in1" /\ ~res.exc) =>
        /\ res.status = DECODE_OK <=> DigestXorC18(BufferC18) = 28145
        /\ res.status # DECODE_OK => res.status = DECODE_DIG_ERR
        /\ res.status = DECODE_OK => IsReading(res.data)
        /\ (BufferC18[22] = 0 /\ log_level >= LOG_LEVEL_WARNING) =>
              \E i \in 1..Len(out) : out[i] = "Data sanity check failed"

\* a frame with raw byte 21 = 0x00 and a right digest was decoded at a level
\* that prints warnings: the warning is there, and so is the reading
C18_Witness ==
    /\ pc = "again"
    /\ dec = "7in1"
    /\ kept.msg[22] = 0
    /\ res.status = DECODE_OK
    /\ IsReading(res.data)
    /\ out = <<"Data sanity check failed">>

WindLightC19 ==
    {"wind_gust_meter_sec", "wind_avg_meter_sec", "wind_direction_deg", "light_lux",
     "uv_index"}

\* C19: an accepted 7-in-1 frame of sensor type 1 or 13 has temp_c, humidity,
\* rain_mm, wind gust, wind average, wind direction, light and UV index; one of
\* type 12 has temp_c, humidity and rain_mm and none of the wind, light and UV
\* fields; globe_temp_c is there exactly for type 13 with the high nibble of
\* de-whitened byte 23 below 10.
C19_WeatherFields ==
    (pc = "decoded" /\ dec = "7in1" /\ ~res.exc /\ res.status = DECODE_OK) =>
        /\ msg[7] \div 16 \in {1, 13} =>
              ({"temp_c", "humidity", "rain_mm"} \cup WindLightC19) \subseteq DOMAIN res.data
        /\ msg[7] \div 16 = 12 =>
              /\ {"temp_c", "humidity", "rain_mm"} \subseteq DOMAIN res.data
              /\ WindLightC19 \cap DOMAIN res.data = {}
        /\ Has(res.data, "globe_temp_c") <=>
              (msg[7] \div 16 = 13 /\ Xor(msg[24], 170) \div 16 < 10)

\* an 8-in-1 frame (type 13) with a valid globe temperature
C19_Witness ==
    /\ pc = "decoded"
    /\ dec = "7in1"
    /\ res.status = DECODE_OK
    /\ msg[7] \div 16 = 13
    /\ Has(res.data, "globe_temp_c")
    /\ Has(res.data, "uv_index")

\* C20: in a 6-in-1 reading temp_c is there exactly when the flags (low nibble
\* of byte 16) are 0, rain_mm exactly when the flags are 1 and the sensor type
\* is 1; no reading has both temp_c and rain_mm, none has both humidity and
\* moisture.
C20_TempRainExclusive ==
    (pc = "decoded" /\ dec = "6in1" /\ ~res.exc /\ res.status = DECODE_OK) =>
        /\ Has(res.data, "temp_c") <=> (msg[17] % 16 = 0)
        /\ Has(res.data, "rain_mm") <=> (msg[17] % 16 = 1 /\ msg[7] \div 16 = 1)
        /\ ~(Has(res.data, "temp_c") /\ Has(res.data, "rain_mm"))
        /\ ~(Has(res.data, "humidity") /\ Has(res.data, "moisture"))

\* a frame with flags 1 from a sensor of type 1: rain, no temperature
C20_Witness ==
    /\ pc = "decoded"
    /\ dec = "6in1"
    /\ res.status = DECODE_OK
    /\ msg[17] % 16 = 1
    /\ Has(res.data, "rain_mm")
    /\ ~Has(res.data, "temp_c")

\* the 3-digit raw temperature of a 6-in-1 frame: nibbles of byte 12 and the
\* high nibble of byte 13
RawTempC21(m) == (m[13] \div 16) * 100 + (m[13] % 16) * 10 + (m[14] \div 16)

\* the sign bit: bit 3 of byte 13
SignC21(m) == (m[14] \div 8) % 2 = 1

\* C21: in an accepted 6-in-1 frame with flags 0 and the sign bit set, a raw
\* temperature below 500 is reported unsigned (raw, in tenths) and uv_index is
\* left out; a raw temperature of 500 or more is reported as raw - 1000.  No
\* 6-in-1 reading has a temperature below -50.0 degrees (-500 tenths).
C21_SignCorrection ==
    (pc = "decoded" /\ dec = "6in1" /\ ~res.exc /\ res.status = DECODE_OK) =>
        /\ (msg[17] % 16 = 0 /\ SignC21(msg) /\ RawTempC21(msg) < 500) =>
              (res.data.temp_c = RawTempC21(msg) /\ ~Has(res.data, "uv_index"))
        /\ (msg[17] % 16 = 0 /\ SignC21(msg) /\ RawTempC21(msg) >= 500) =>
              res.data.temp_c = RawTempC21(msg) - 1000
        /\ Has(res.data, "temp_c") => res.data.temp_c >= -500

\* the sign bit is set on a raw temperature of 499: reported as +49.9
C21_Witness ==
    /\ pc = "decoded"
    /\ dec = "6in1"
    /\ res.status = DECODE_OK
    /\ msg[17] % 16 = 0
    /\ SignC21(msg)
    /\ RawTempC21(msg) = 499
    /\ res.data.temp_c = 499
    /\ ~Has(res.data, "uv_index")

WindC22 == {"wind_gust_meter_sec", "wind_avg_meter_sec", "wind_direction_deg"}

\* C22: in a 6-in-1 reading the three wind fields are there together or not at
\* all; they are there exactly when bytes 7, 8 and 9, each XORed with 0xFF, are
\* at most 0x99 and the sensor type is not 4, whatever the flags are.
C22_WindPresence ==
    (pc = "decoded" /\ dec = "6in1" /\ ~res.exc /\ res.status = DECODE_OK) =>
        /\ WindC22 \subseteq DOMAIN res.data \/ WindC22 \cap DOMAIN res.data = {}
        /\ WindC22 \subseteq DOMAIN res.data <=>
              /\ 255 - msg[8] <= 153
              /\ 255 - msg[9] <= 153
              /\ 255 - msg[10] <= 153
              /\ msg[7] \div 16 # 4

\* a rain message (flags 1) that carries the wind fields
C22_Witness ==
    /\ pc = "decoded"
    /\ dec = "6in1"
    /\ res.status = DECODE_OK
    /\ msg[17] % 16 = 1
    /\ Has(res.data, "rain_mm")
    /\ WindC22 \subseteq DOMAIN res.data

\* C23: whenever a 6-in-1 reading has the wind fields, every nibble of the
\* inverted bytes 7, 8 and 9 is a decimal digit, so the raw gust and the raw
\* average are each in 0..999.
C23_WindIsBcd ==
    (pc = "decoded" /\ dec = "6in1" /\ ~res.exc /\ res.status = DECODE_OK
     /\ Has(res.data, "wind_gust_meter_sec")) =>
        /\ \A i \in {8, 9, 10} : (255 - msg[i]) \div 16 <= 9 /\ (255 - msg[i]) % 16 <= 9
        /\ res.data.wind_gust_meter_sec \in 0..999
        /\ res.data.wind_avg_meter_sec \in 0..999

WindC24 == {"wind_gust_meter_sec", "wind_avg_meter_sec", "wind_direction_deg"}

\* sensor type of a 5-in-1 frame (byte 15 without its top bit) is 0x39..0x3B
GaugeC24(m) == m[16] % 128 \in 57..59

\* C24: every 5-in-1 reading has sensor_id, sensor_type, battery_ok, startup
\* and rain_mm and no channel; temp_c is there exactly when the low nibble of
\* byte 20 is at most 9; humidity exactly when the low nibble of byte 22 is at
\* most 9 and the sensor type is outside 0x39..0x3B; the three wind fields
\* exactly when the sensor type is outside 0x39..0x3B.
C24_FieldPresence5In1 ==
    (pc = "decoded" /\ dec = "5in1" /\ ~res.exc /\ res.status = DECODE_OK) =>
        /\ {"sensor_id", "sensor_type", "battery_ok", "startup", "rain_mm"}
              \subseteq DOMAIN res.data
        /\ ~Has(res.data, "channel")
        /\ Has(res.data, "temp_c") <=> (msg[21] % 16 <= 9)
        /\ Has(res.data, "humidity") <=> (msg[23] % 16 <= 9 /\ ~GaugeC24(msg))
        /\ \A f \in WindC24 : Has(res.data, f) <=> ~GaugeC24(msg)

\* a rain gauge frame of type 0x3B: rain and temperature, no humidity, no wind
C24_Witness ==
    /\ pc = "decoded"
    /\ dec = "5in1"
    /\ res.status = DECODE_OK
    /\ msg[16] % 128 = 59
    /\ Has(res.data, "rain_mm")
    /\ Has(res.data, "temp_c")
    /\ ~Has(res.data, "humidity")
    /\ ~Has(res.data, "wind_avg_meter_sec")

\* bytes 0..17 of m, followed by zeros
ZeroPadC25(m) == [i \in 1..Len(m) |-> IF i <= 18 THEN m[i] ELSE 0]

\* C25: the 6-in-1 decoder gives a buffer the status and the reading it gives
\* the same bytes 0..17 padded with zeros: bytes 18..25 have no influence.
C25_OnlyFirst18Bytes ==
    (pc = "decoded" /\ dec = "6in1") =>
        res = decodeBresser6In1Payload(ZeroPadC25(msg), MSG_SIZE)

\* an accepted frame whose bytes after the payload are not zero
C25_Witness ==
    /\ pc = "decoded"
    /\ dec = "6in1"
    /\ res.status = DECODE_OK
    /\ msg[19] = 85
    /\ msg[26] = 255
    /\ ZeroPadC25(msg) # msg

\* C26: whatever (status, buffer) the receiver hands to getMessage, also
\* ERR_NONE with fewer than 27 bytes or with none, getMessage runs to its
\* return: neither the sync-byte test nor a decoder called with size 26 reads
\* outside the buffer.
C26_GetMessageCompletes == pc # "crashed"

\* bytes 0..7 of m, followed by zeros
ZeroPadC27(m) == [i \in 1..Len(m) |-> IF i <= 8 THEN m[i] ELSE 0]

\* values for byte 7: every high nibble, with the low nibble all clear or all set
Byte7C27 == {16 * h + l : h \in 0..15, l \in {0, 15}}

\* C27: the Leakage decoder's status and reading depend on bytes 0..7 only, and
\* the CRC on bytes 0..6 only: with any value in byte 7 a buffer whose CRC is
\* right gets DECODE_OK or DECODE_INVALID, never DECODE_CHK_ERR, also after a
\* bit of byte 7 of an accepted frame was flipped.
C27_Byte7Unprotected ==
    (pc = "decoded" /\ dec = "Leakage" /\ ~res.exc) =>
        /\ res = decodeBresserLeakagePayload(ZeroPadC27(msg), MSG_SIZE)
        /\ (flip = <<>> /\ CrcMatches(msg)) =>
              \A b \in Byte7C27 :
                 decodeBresserLeakagePayload(Put(msg, 7, b), MSG_SIZE).status
                    \in {DECODE_OK, DECODE_INVALID}
        /\ (flip # <<>> /\ flip[1] = 7) => res.status \in {DECODE_OK, DECODE_INVALID}

\* an accepted frame had one bit of byte 7 flipped: the CRC still matches, and
\* the frame is now turned down as invalid
C27_Witness ==
    /\ pc = "decoded"
    /\ dec = "Leakage"
    /\ flip # <<>>
    /\ flip[1] = 7
    /\ CrcMatches(msg)
    /\ res.status = DECODE_INVALID

\* C28: every 6-in-1 reading has battery_ok; it is set exactly when the flags
\* are 0 and bit 1 of byte 13 is set, so with flags other than 0 (a rain
\* message) it is not set, whatever byte 13 holds.
C28_BatteryOnlyWithFlags0 ==
    (pc = "decoded" /\ dec = "6in1" /\ ~res.exc /\ res.status = DECODE_OK) =>
        /\ Has(res.data, "battery_ok")
        /\ res.data.battery_ok \in {0, 1}
        /\ res.data.battery_ok = 1 <=> (msg[17] % 16 = 0 /\ (msg[14] \div 2) % 2 = 1)
        /\ msg[17] % 16 # 0 => res.data.battery_ok = 0

\* a rain message with bit 1 of byte 13 set: battery_ok is not set
C28_Witness ==
    /\ pc = "decoded"
    /\ dec = "6in1"
    /\ res.status = DECODE_OK
    /\ msg[17] % 16 = 1
    /\ (msg[14] \div 2) % 2 = 1
    /\ Has(res.data, "rain_mm")
    /\ res.data.battery_ok = 0

\* the sensor types the 7-in-1 decoder has a branch for
KnownC29 == {1, 8, 10, 11, 12, 13}

CommonC29 == {"sensor_id", "sensor_type", "channel", "battery_ok", "startup"}

\* buffer m with sensor type t in raw byte 6 and the digest recomputed
RetypedC29(m, t) == Seal7In1(Put(m, 6, 16 * t + (m[7] % 16)))

\* C29: a 7-in-1 frame with a right digest is accepted whatever its sensor
\* type 0..15 is; for a type other than 1, 8, 10, 11, 12, 13 the reading has
\* the five common fields and nothing else.
C29_UnknownTypeAccepted ==
    (pc = "decoded" /\ dec = "7in1" /\ ~res.exc /\ res.status = DECODE_OK) =>
        /\ msg[7] \div 16 \notin KnownC29 => DOMAIN res.data = CommonC29
        /\ msg[7] \div 16 \in KnownC29 =>
              (CommonC29 \subseteq DOMAIN res.data /\ DOMAIN res.data # CommonC29)
        /\ flip = <<>> =>
              \A t \in 0..15 :
                 \E r \in {decodeBresser7In1Payload(RetypedC29(msg, t), MSG_SIZE)} :
                    /\ r.status = DECODE_OK
                    /\ r.data.sensor_type = t
                    /\ t \notin KnownC29 => DOMAIN r.data = CommonC29

\* a frame of sensor type 2 was accepted with the common fields only
C29_Witness ==
    /\ pc = "decoded"
    /\ dec = "7in1"
    /\ res.status = DECODE_OK
    /\ msg[7] \div 16 = 2
    /\ DOMAIN res.data = CommonC29

\* a status byte or register content as getRSSI converts it, in half dBm
HalfDbmC30(v) == IF v >= 128 THEN v - 404 ELSE v - 148

\* C30: every receive starts by resetting the stored packet RSSI, so after any
\* receive the stored value is the status byte this receive read, or None when
\* it timed out or read no status bytes; getRSSI then converts this receive's
\* status byte, or falls back to the RSSI register, and never uses the status
\* byte of an earlier receive.
C30_RssiFresh ==
    pc # "start" =>
        /\ rawRSSI = rxLast.status
        /\ \A reg \in RssiVals :
              getRSSI(rawRSSI, reg) = IF rxLast.status = <<>> THEN HalfDbmC30(reg)
                                      ELSE HalfDbmC30(rxLast.status[1])

\* an earlier receive stored a status byte, the last one timed out or read no
\* status bytes: the stored value is gone and getRSSI reads the register
C30_Witness ==
    /\ pc = "returned"
    /\ rxLast.before # <<>>
    /\ rxLast.status = <<>>
    /\ rawRSSI = <<>>
    /\ getRSSI(rawRSSI, 200) = -204

=============================================================================
